---- MODULE Spec2Model ----
(***************************************************************************)
(* Frame-resource pipeline of ShapesApp (Week4-6-ShapeComplete.cpp).       *)
(*                                                                         *)
(* The CPU thread runs Initialize and then frames (Update, Draw); the GPU  *)
(* consumes the command queue in order and asynchronously.  Spec runs the  *)
(* whole program on a bounded scene; InitSpec runs Initialize on the scene *)
(* the program builds (32 render items).  LiveSpec is Spec with fairness,  *)
(* CameraSpec adds the mouse, ShutdownSpec the destructor, LossSpec a lost *)
(* fence signal and IndexSpec scenes with an item left at its default      *)
(* ObjCBIndex.                                                             *)
(***************************************************************************)
EXTENDS Integers, Sequences, FiniteSets, TLC

VARIABLES
    pc,                      \* position of the CPU thread
    scene,                   \* the render items BuildRenderItems creates, in order
    mAllRitems,              \* 0-based vector of render items
    mOpaqueRitems,           \* 0-based vector of pointers (indices) into mAllRitems
    mFrameResources,         \* 0-based vector of frame resources
    mCurrFrameResource,      \* pointer: NullPtr or an index of mFrameResources
    mCurrFrameResourceIndex,
    mCbvHeap,                \* NoHeap or [heap index -> view]
    mPassCbvOffset,
    mIsWireframe,
    mCurrentFence,           \* CPU-side fence counter (D3DApp::mCurrentFence)
    mFence,                  \* GPU-completed fence value (mFence->GetCompletedValue())
    mCommandQueue,           \* work submitted to the GPU and not finished, in order
    loopFrame, loopI,        \* frameIndex and i of BuildConstantBufferViews
    frameNo,                 \* number of Updates started
    numSets,                 \* number of transform changes made so far
    acquired,                \* history: the frame resource index of each frame
    cyclesSinceSet,          \* history: per render item, UpdateObjectCBs cycles
                             \* run since its transform was last set (up to N)
    mRadius,                 \* camera distance, in scene units
    watermarks               \* history: the fence value each Draw recorded

vars == << pc, scene, mAllRitems, mOpaqueRitems, mFrameResources,
           mCurrFrameResource, mCurrFrameResourceIndex, mCbvHeap, mPassCbvOffset,
           mIsWireframe, mCurrentFence, mFence, mCommandQueue,
           loopFrame, loopI, frameNo, numSets, acquired, cyclesSinceSet,
           mRadius, watermarks >>

(***************************************************************************)
(* Program constants                                                       *)
(***************************************************************************)
gNumFrameResources == 3

\* number of render items BuildRenderItems creates (ObjCBIndex 0 .. 31)
NumSceneRitems == 32

\* float mRadius = 15.0f, and the range OnMouseMove restricts it to
InitRadius == 15
MinRadius == 5
MaxRadius == 150

\* UINT values are kept as the integer with the same 32 bits in two's
\* complement (UINT ObjCBIndex = -1 is -1).  The products and sums below stay
\* under 2^31 for every scene of the model, so none of them wraps.

(***************************************************************************)
(* Bounds of the model                                                     *)
(***************************************************************************)
MaxRitems == 2        \* render items of the bounded scene of Spec
MaxFrames == 6        \* frames run
MaxSets == 1          \* transform changes between frames
MaxMoves == 1         \* mouse moves between frames

(***************************************************************************)
(* Values                                                                  *)
(***************************************************************************)
NullPtr == "nullptr"
NoHeap == "noheap"
\* a descriptor no view was created at
NoView == [ kind |-> "none", frame |-> -1, element |-> -1 ]
\* upload-buffer elements the CPU never wrote
UnwrittenObject == [ World |-> << >> ]
UnwrittenPass ==
    [ EyePosW |-> [ x |-> -1, y |-> -1, z |-> -1 ],
      NearZ |-> -1, FarZ |-> -1, TotalTime |-> -1 ]

Last(n) == 0 .. (n - 1)

\* 0-based vectors are functions over 0 .. size-1
Size(v) == Cardinality(DOMAIN v)
EmptyVec == [k \in {} |-> 0]
PushBack(v, x) == [k \in Last(Size(v) + 1) |-> IF k < Size(v) THEN v[k] ELSE x]

\* 4x4 matrices, row-major: m[r][c]
Identity4x4 ==
    << <<1, 0, 0, 0>>, <<0, 1, 0, 0>>, <<0, 0, 1, 0>>, <<0, 0, 0, 1>> >>

XMMatrixTranslation(x, y, z) ==
    << <<1, 0, 0, 0>>, <<0, 1, 0, 0>>, <<0, 0, 1, 0>>, <<x, y, z, 1>> >>

\* variant: only the upper 3x3 block is transposed
XMMatrixTranspose_Upper3x3(m) ==
    [r \in 1..4 |-> [c \in 1..4 |-> IF r < 4 /\ c < 4 THEN m[c][r] ELSE m[r][c]]]

XMMatrixTranspose(m) == [r \in 1..4 |-> [c \in 1..4 |-> m[c][r]]]

\* the radius changes the model draws from
MouseDeltas == { 1 }

\* the transforms the model draws from
Transforms ==
    { Identity4x4,
      XMMatrixTranslation(5, 0, 0) }

(***************************************************************************)
(* Scenes                                                                  *)
(***************************************************************************)
\* variant: NumFramesDirty starts one short of the number of frame resources
RenderItemDefault_OneShort ==
    [ World |-> Identity4x4,
      NumFramesDirty |-> gNumFrameResources - 1,
      ObjCBIndex |-> -1,
      IndexCount |-> 0,
      StartIndexLocation |-> 0,
      BaseVertexLocation |-> 0 ]

\* RenderItem() = default
RenderItemDefault ==
    [ World |-> Identity4x4,
      NumFramesDirty |-> gNumFrameResources,
      ObjCBIndex |-> -1,
      IndexCount |-> 0,
      StartIndexLocation |-> 0,
      BaseVertexLocation |-> 0 ]

\* BuildShapeGeometry: the meshes in the order they are concatenated into the
\* vertex and index buffer
ShapeOrder ==
    << "box", "grid", "sphere", "cylinder", "cone",
       "wedge", "pyramid", "diamond", "triPrism" >>

\* Vertices.size() and Indices32.size() of the meshes geoGen returns.  The
\* generator is outside this file; the sizes are stand-ins, one pair a shape.
MeshData ==
    [ box      |-> [ Vertices |-> 24, Indices32 |-> 36 ],
      grid     |-> [ Vertices |-> 12, Indices32 |-> 24 ],
      sphere   |-> [ Vertices |-> 14, Indices32 |-> 48 ],
      cylinder |-> [ Vertices |-> 18, Indices32 |-> 42 ],
      cone     |-> [ Vertices |-> 10, Indices32 |-> 30 ],
      wedge    |-> [ Vertices |-> 6,  Indices32 |-> 18 ],
      pyramid  |-> [ Vertices |-> 5,  Indices32 |-> 15 ],
      diamond  |-> [ Vertices |-> 7,  Indices32 |-> 21 ],
      triPrism |-> [ Vertices |-> 8,  Indices32 |-> 27 ] ]

\* the position of a shape in ShapeOrder
ShapePosition(shape) == CHOOSE n \in 1 .. Len(ShapeOrder) : ShapeOrder[n] = shape

\* boxVertexOffset = 0, gridVertexOffset = box.Vertices.size(), ...: the sizes
\* of the first n meshes added up
RECURSIVE VerticesBefore(_)
VerticesBefore(n) ==
    IF n = 0 THEN 0 ELSE VerticesBefore(n - 1) + MeshData[ShapeOrder[n]].Vertices

RECURSIVE IndicesBefore(_)
IndicesBefore(n) ==
    IF n = 0 THEN 0 ELSE IndicesBefore(n - 1) + MeshData[ShapeOrder[n]].Indices32

\* geo->DrawArgs[shape]: the SubmeshGeometry of the shape
DrawArgs(shape) ==
    [ IndexCount |-> MeshData[shape].Indices32,
      StartIndexLocation |-> IndicesBefore(ShapePosition(shape) - 1),
      BaseVertexLocation |-> VerticesBefore(ShapePosition(shape) - 1) ]

\* one block of BuildRenderItems: a default item, then World, ObjCBIndex and
\* the draw arguments of its shape set
MakeRenderItem(world, objCBIndex, shape) ==
    [ RenderItemDefault EXCEPT
        !.World = world,
        !.ObjCBIndex = objCBIndex,
        !.IndexCount = DrawArgs(shape).IndexCount,
        !.StartIndexLocation = DrawArgs(shape).StartIndexLocation,
        !.BaseVertexLocation = DrawArgs(shape).BaseVertexLocation ]

\* BuildRenderItems: the shape of the block that sets ObjCBIndex = index
SceneShape(index) ==
    IF index <= 9 THEN "box"
    ELSE IF index = 10 THEN "grid"
    ELSE IF index = 11 THEN "wedge"
    ELSE IF index = 12 THEN "pyramid"
    ELSE IF index <= 16 THEN "diamond"
    ELSE IF index <= 18 THEN "triPrism"
    ELSE IF index <= 24 THEN "cylinder"
    ELSE IF index <= 30 THEN "cone"
    ELSE "sphere"

\* variant: the sphere's block keeps the index of the block it was copied from
ShapesScene_CopiedIndex ==
    [ k \in 1 .. NumSceneRitems |->
        [ World |-> Identity4x4,
          ObjCBIndex |-> IF k = NumSceneRitems THEN k - 2 ELSE k - 1,
          Shape |-> SceneShape(k - 1) ] ]

\* the scene the program builds: ObjCBIndex 0 .. 31 in order.  The float
\* transforms of the 32 shapes play no part in the layout; the grid's value
\* (Identity4x4) stands for them.
ShapesScene ==
    [ k \in 1 .. NumSceneRitems |->
        [ World |-> Identity4x4, ObjCBIndex |-> k - 1, Shape |-> SceneShape(k - 1) ] ]

\* bounded scenes of Spec: MaxRitems items numbered in order, any transforms,
\* the shapes taken in the order of ShapeOrder
BoundedScenes ==
    { [ k \in 1 .. MaxRitems |->
          [ World |-> w[k], ObjCBIndex |-> k - 1,
            Shape |-> ShapeOrder[((k - 1) % Len(ShapeOrder)) + 1] ] ] :
        w \in [ 1 .. MaxRitems -> Transforms ] }

\* the bounded scenes with one block that leaves ObjCBIndex at its default
UnindexedScenes ==
    { [ sc EXCEPT ![k].ObjCBIndex = RenderItemDefault.ObjCBIndex ] :
        sc \in BoundedScenes, k \in 1 .. MaxRitems }

\* FrameResource(device, passCount, objectCount)
NewFrameResource(passCount, objectCount) ==
    [ Fence |-> 0,
      PassCB |-> [ k \in Last(passCount) |-> UnwrittenPass ],
      ObjectCB |-> [ k \in Last(objectCount) |-> UnwrittenObject ] ]

\* UploadBuffer::CopyData(elementIndex, data); every index the program passes
\* is an element of the buffer
CopyData(buffer, elementIndex, data) ==
    IF elementIndex \in DOMAIN buffer
    THEN [ buffer EXCEPT ![elementIndex] = data ]
    ELSE buffer

(***************************************************************************)
(* Descriptor heap layout                                                  *)
(***************************************************************************)
\* variant: no descriptor for the per-pass CBVs
NumDescriptors_NoPass(objCount) == objCount * gNumFrameResources

\* BuildDescriptorHeaps: numDescriptors
NumDescriptors(objCount) == (objCount + 1) * gNumFrameResources

\* variant: the pass CBVs start after the objects of one frame resource
PassCbvOffset_OneFrame(objCount) == objCount

\* BuildDescriptorHeaps: mPassCbvOffset
PassCbvOffset(objCount) == objCount * gNumFrameResources

\* variant: the stride is the number of frame resources
ObjectHeapIndex_FrameStride(frameIndex, objCount, i) ==
    frameIndex * gNumFrameResources + i

\* BuildConstantBufferViews: heapIndex of the object CBV (frameIndex, i)
ObjectHeapIndex(frameIndex, objCount, i) == frameIndex * objCount + i

\* variant: the pass CBVs are created at the start of the heap
PassHeapIndex_NoOffset(passCbvOffset, frameIndex) == frameIndex

\* BuildConstantBufferViews: heapIndex of the pass CBV of frameIndex
PassHeapIndex(passCbvOffset, frameIndex) == passCbvOffset + frameIndex

\* variant: the descriptors of one item are taken to be adjacent
DrawCbvIndex_ItemMajor(frameResourceIndex, opaqueCount, objCBIndex) ==
    objCBIndex * gNumFrameResources + frameResourceIndex

\* DrawRenderItems: cbvIndex
DrawCbvIndex(frameResourceIndex, opaqueCount, objCBIndex) ==
    frameResourceIndex * opaqueCount + objCBIndex

\* variant: the offset of the pass CBVs is left out
DrawPassCbvIndex_NoOffset(passCbvOffset, frameResourceIndex) == frameResourceIndex

\* Draw: passCbvIndex
DrawPassCbvIndex(passCbvOffset, frameResourceIndex) ==
    passCbvOffset + frameResourceIndex

\* CreateConstantBufferView(&cbvDesc, handle) at heapIndex
CreateConstantBufferView(heap, heapIndex, view) ==
    IF heapIndex \in DOMAIN heap
    THEN [ heap EXCEPT ![heapIndex] = view ]
    ELSE heap

ObjectView(frameIndex, i) == [ kind |-> "object", frame |-> frameIndex, element |-> i ]
PassView(frameIndex) == [ kind |-> "pass", frame |-> frameIndex, element |-> 0 ]

(***************************************************************************)
(* Initial states                                                          *)
(***************************************************************************)
InitWith(sc) ==
    /\ pc = "BuildRenderItems"
    /\ scene = sc
    /\ mAllRitems = EmptyVec
    /\ mOpaqueRitems = EmptyVec
    /\ mFrameResources = EmptyVec
    /\ mCurrFrameResource = NullPtr
    /\ mCurrFrameResourceIndex = 0
    /\ mCbvHeap = NoHeap
    /\ mPassCbvOffset = 0
    /\ mIsWireframe = FALSE
    /\ mCurrentFence = 0
    /\ mFence = 0
    /\ mCommandQueue = << >>
    /\ loopFrame = 0
    /\ loopI = 0
    /\ frameNo = 0
    /\ numSets = 0
    /\ acquired = << >>
    /\ cyclesSinceSet = EmptyVec
    /\ mRadius = InitRadius
    /\ watermarks = << >>

Init == \E sc \in BoundedScenes : InitWith(sc)

InitUnindexed == \E sc \in UnindexedScenes : InitWith(sc)

\* Initialize on the program's scene, and on the bounded ones
InitScenes == \E sc \in {ShapesScene} \cup BoundedScenes : InitWith(sc)

(***************************************************************************)
(* Initialize                                                              *)
(***************************************************************************)
frameVars == << mCurrFrameResource, mCurrFrameResourceIndex, mIsWireframe,
                mCurrentFence, mFence, mCommandQueue, frameNo, numSets, acquired,
                mRadius, watermarks >>

\* BuildRenderItems: the next block (create, fill, push_back)
BuildRenderItem ==
    /\ pc = "BuildRenderItems"
    /\ Size(mAllRitems) < Len(scene)
    /\ LET s == scene[Size(mAllRitems) + 1]
       IN  mAllRitems' = PushBack(mAllRitems, MakeRenderItem(s.World, s.ObjCBIndex, s.Shape))
    /\ cyclesSinceSet' = PushBack(cyclesSinceSet, 0)
    /\ UNCHANGED << pc, scene, mOpaqueRitems, mFrameResources, mCbvHeap,
                    mPassCbvOffset, loopFrame, loopI, frameVars >>

\* BuildRenderItems: "all the render items are opaque"
BuildOpaqueRitems ==
    /\ pc = "BuildRenderItems"
    /\ Size(mAllRitems) = Len(scene)
    /\ mOpaqueRitems' = [ k \in DOMAIN mAllRitems |-> k ]
    /\ pc' = "BuildFrameResources"
    /\ UNCHANGED << scene, mAllRitems, mFrameResources, mCbvHeap,
                    mPassCbvOffset, loopFrame, loopI, frameVars, cyclesSinceSet >>

\* variant: the object count passed to the frame resources is the pass count
BuildFrameResources_OneObject ==
    /\ pc = "BuildFrameResources"
    /\ mFrameResources' =
         [ k \in Last(gNumFrameResources) |-> NewFrameResource(1, 1) ]
    /\ pc' = "BuildDescriptorHeaps"
    /\ UNCHANGED << scene, mAllRitems, mOpaqueRitems, mCbvHeap,
                    mPassCbvOffset, loopFrame, loopI, frameVars, cyclesSinceSet >>

BuildFrameResources ==
    /\ pc = "BuildFrameResources"
    /\ mFrameResources' =
         [ k \in Last(gNumFrameResources) |-> NewFrameResource(1, Size(mAllRitems)) ]
    /\ pc' = "BuildDescriptorHeaps"
    /\ UNCHANGED << scene, mAllRitems, mOpaqueRitems, mCbvHeap,
                    mPassCbvOffset, loopFrame, loopI, frameVars, cyclesSinceSet >>

BuildDescriptorHeaps ==
    /\ pc = "BuildDescriptorHeaps"
    /\ LET objCount == Size(mOpaqueRitems)
       IN  /\ mPassCbvOffset' = PassCbvOffset(objCount)
           /\ mCbvHeap' = [ h \in Last(NumDescriptors(objCount)) |-> NoView ]
           /\ loopFrame' = IF objCount = 0 THEN gNumFrameResources ELSE 0
    /\ loopI' = 0
    /\ pc' = "BuildObjectCbvs"
    /\ UNCHANGED << scene, mAllRitems, mOpaqueRitems, mFrameResources, frameVars, cyclesSinceSet >>

\* BuildConstantBufferViews, first loop: one CreateConstantBufferView
BuildObjectCbv ==
    /\ pc = "BuildObjectCbvs"
    /\ loopFrame < gNumFrameResources
    /\ LET objCount == Size(mOpaqueRitems)
       IN  /\ mCbvHeap' = CreateConstantBufferView(mCbvHeap,
                              ObjectHeapIndex(loopFrame, objCount, loopI),
                              ObjectView(loopFrame, loopI))
           /\ IF loopI + 1 < objCount
              THEN loopI' = loopI + 1 /\ loopFrame' = loopFrame
              ELSE loopI' = 0 /\ loopFrame' = loopFrame + 1
    /\ UNCHANGED << pc, scene, mAllRitems, mOpaqueRitems, mFrameResources,
                    mPassCbvOffset, frameVars, cyclesSinceSet >>

\* BuildConstantBufferViews, second loop: one CreateConstantBufferView
BuildPassCbv ==
    /\ \/ pc = "BuildObjectCbvs" /\ loopFrame = gNumFrameResources /\ loopFrame' = 1
          /\ mCbvHeap' = CreateConstantBufferView(mCbvHeap,
                             PassHeapIndex(mPassCbvOffset, 0), PassView(0))
          /\ pc' = IF 1 < gNumFrameResources THEN "BuildPassCbvs" ELSE "Flush"
       \/ pc = "BuildPassCbvs" /\ loopFrame' = loopFrame + 1
          /\ mCbvHeap' = CreateConstantBufferView(mCbvHeap,
                             PassHeapIndex(mPassCbvOffset, loopFrame), PassView(loopFrame))
          /\ pc' = IF loopFrame + 1 < gNumFrameResources THEN "BuildPassCbvs" ELSE "Flush"
    /\ UNCHANGED << scene, mAllRitems, mOpaqueRitems, mFrameResources,
                    mPassCbvOffset, loopI, frameVars, cyclesSinceSet >>

\* Initialize: execute the initialization commands and FlushCommandQueue()
InitializeFlush ==
    /\ pc = "Flush"
    /\ mCurrentFence' = mCurrentFence + 1
    /\ mFence' = mCurrentFence + 1
    /\ pc' = "Update"
    /\ UNCHANGED << scene, mAllRitems, mOpaqueRitems, mFrameResources,
                    mCurrFrameResource, mCurrFrameResourceIndex, mCbvHeap,
                    mPassCbvOffset, mIsWireframe, mCommandQueue,
                    loopFrame, loopI, frameNo, numSets, acquired, cyclesSinceSet,
                    mRadius, watermarks >>

NextInitialize ==
    \/ BuildRenderItem
    \/ BuildOpaqueRitems
    \/ BuildFrameResources
    \/ BuildDescriptorHeaps
    \/ BuildObjectCbv
    \/ BuildPassCbv
    \/ InitializeFlush

InitSpec == InitScenes /\ [][NextInitialize]_vars

(***************************************************************************)
(* Frames                                                                  *)
(***************************************************************************)
initVars == << scene, mOpaqueRitems, mCbvHeap, mPassCbvOffset, loopFrame, loopI >>

\* variant: the index is advanced by two
NextFrameResourceIndex_SkipsOne(index) == (index + 2) % gNumFrameResources

\* Update: cycle through the circular frame resource array
NextFrameResourceIndex(index) == (index + 1) % gNumFrameResources

\* variants: the fence is never waited for; the comparison is off by one;
\* the comparison is inverted
NeedsWait_Never(fence, completedValue) == FALSE
NeedsWait_OffByOne(fence, completedValue) == fence # 0 /\ completedValue < fence - 1
NeedsWait_Inverted(fence, completedValue) == fence # 0 /\ completedValue > fence

\* variant: the wait is entered also when the fence has just been reached
NeedsWait_OrEqual(fence, completedValue) == fence # 0 /\ completedValue <= fence

\* Update: has the GPU not yet finished the commands of this frame resource?
NeedsWait(fence, completedValue) == fence # 0 /\ completedValue < fence

\* variant: the world matrix is stored as it is
ObjectConstantsOf_NoTranspose(e) == [ World |-> e.World ]

\* ObjectConstants of a render item
ObjectConstantsOf(e) == [ World |-> XMMatrixTranspose(e.World) ]

\* variant: the loop ends at the first item that needs no update
RECURSIVE UpdateObjectCBsFrom_StopsAtClean(_, _, _)
UpdateObjectCBsFrom_StopsAtClean(k, ritems, currObjectCB) ==
    IF k >= Size(ritems)
    THEN [ ritems |-> ritems, cb |-> currObjectCB ]
    ELSE IF ritems[k].NumFramesDirty > 0
         THEN UpdateObjectCBsFrom_StopsAtClean(k + 1,
                  [ ritems EXCEPT ![k].NumFramesDirty = @ - 1 ],
                  CopyData(currObjectCB, ritems[k].ObjCBIndex, ObjectConstantsOf(ritems[k])))
         ELSE [ ritems |-> ritems, cb |-> currObjectCB ]

\* variant: the transposed matrix is stored back into the item as well
RECURSIVE UpdateObjectCBsFrom_StoresIntoWorld(_, _, _)
UpdateObjectCBsFrom_StoresIntoWorld(k, ritems, currObjectCB) ==
    IF k >= Size(ritems)
    THEN [ ritems |-> ritems, cb |-> currObjectCB ]
    ELSE IF ritems[k].NumFramesDirty > 0
         THEN UpdateObjectCBsFrom_StoresIntoWorld(k + 1,
                  [ ritems EXCEPT ![k].NumFramesDirty = @ - 1,
                                  ![k].World = XMMatrixTranspose(@) ],
                  CopyData(currObjectCB, ritems[k].ObjCBIndex, ObjectConstantsOf(ritems[k])))
         ELSE UpdateObjectCBsFrom_StoresIntoWorld(k + 1, ritems, currObjectCB)

\* variant: the loop writes and decrements whatever the dirty count
RECURSIVE UpdateObjectCBsFrom_Unguarded(_, _, _)
UpdateObjectCBsFrom_Unguarded(k, ritems, currObjectCB) ==
    IF k >= Size(ritems)
    THEN [ ritems |-> ritems, cb |-> currObjectCB ]
    ELSE UpdateObjectCBsFrom_Unguarded(k + 1,
             [ ritems EXCEPT ![k].NumFramesDirty = @ - 1 ],
             CopyData(currObjectCB, ritems[k].ObjCBIndex, ObjectConstantsOf(ritems[k])))

\* UpdateObjectCBs: the loop over mAllRitems from item k on
RECURSIVE UpdateObjectCBsFrom(_, _, _)
UpdateObjectCBsFrom(k, ritems, currObjectCB) ==
    IF k >= Size(ritems)
    THEN [ ritems |-> ritems, cb |-> currObjectCB ]
    ELSE IF ritems[k].NumFramesDirty > 0
         THEN UpdateObjectCBsFrom(k + 1,
                  [ ritems EXCEPT ![k].NumFramesDirty = @ - 1 ],
                  CopyData(currObjectCB, ritems[k].ObjCBIndex, ObjectConstantsOf(ritems[k])))
         ELSE UpdateObjectCBsFrom(k + 1, ritems, currObjectCB)

UpdateObjectCBs(ritems, currObjectCB) == UpdateObjectCBsFrom(0, ritems, currObjectCB)

\* MathHelper::Clamp
Clamp(x, low, high) == IF x < low THEN low ELSE IF x > high THEN high ELSE x

\* UpdateCamera: spherical to Cartesian at mTheta = 1.5 pi (cos 0, sin -1) and
\* the fixed mPhi; y is in units of cos(mPhi), z in units of sin(mPhi)
UpdateCamera(radius) == [ x |-> 0, y |-> radius, z |-> 0 - radius ]

\* variant: the time of the frame is not stored
MainPassCB_NoTime(gt, eyePos) ==
    [ EyePosW |-> eyePos, NearZ |-> 1, FarZ |-> 1000, TotalTime |-> 0 ]

\* UpdateMainPassCB: the pass constants of the frame at time gt
MainPassCB(gt, eyePos) ==
    [ EyePosW |-> eyePos, NearZ |-> 1, FarZ |-> 1000, TotalTime |-> gt ]

\* UpdateObjectCBs passes CopyData an index outside the buffer
WritesOutOfRange(ritems, currObjectCB) ==
    \E k \in DOMAIN ritems :
        /\ ritems[k].NumFramesDirty > 0
        /\ ritems[k].ObjCBIndex \notin DOMAIN currObjectCB

\* where the CPU thread is after the constant-buffer updates: a CopyData
\* outside the mapped buffer is undefined behaviour; the process goes on with
\* memory outside the buffers of the model overwritten, or it is killed
UpdateOutcomes(ritems, currObjectCB) ==
    IF WritesOutOfRange(ritems, currObjectCB) THEN { "Draw", "Crashed" } ELSE { "Draw" }

\* variant: the pointer to the current frame resource lags the index by one
UpdateCBs_StalePointer(curr, gt) ==
    LET prev == (curr + gNumFrameResources - 1) % gNumFrameResources
        r == UpdateObjectCBs(mAllRitems, mFrameResources[prev].ObjectCB)
    IN  /\ mAllRitems' = r.ritems
        /\ mFrameResources' =
             [ mFrameResources EXCEPT
                 ![prev].ObjectCB = r.cb,
                 ![prev].PassCB = CopyData(@, 0, MainPassCB(gt, UpdateCamera(mRadius))) ]
        /\ cyclesSinceSet' =
             [ k \in DOMAIN cyclesSinceSet |->
                 IF cyclesSinceSet[k] < gNumFrameResources
                 THEN cyclesSinceSet[k] + 1 ELSE cyclesSinceSet[k] ]
        /\ pc' \in UpdateOutcomes(mAllRitems, mFrameResources[prev].ObjectCB)

\* UpdateCamera(gt); UpdateObjectCBs(gt); UpdateMainPassCB(gt); on the frame
\* resource curr
UpdateCBs(curr, gt) ==
    LET r == UpdateObjectCBs(mAllRitems, mFrameResources[curr].ObjectCB)
    IN  /\ mAllRitems' = r.ritems
        /\ mFrameResources' =
             [ mFrameResources EXCEPT
                 ![curr].ObjectCB = r.cb,
                 ![curr].PassCB = CopyData(@, 0, MainPassCB(gt, UpdateCamera(mRadius))) ]
        /\ cyclesSinceSet' =
             [ k \in DOMAIN cyclesSinceSet |->
                 IF cyclesSinceSet[k] < gNumFrameResources
                 THEN cyclesSinceSet[k] + 1 ELSE cyclesSinceSet[k] ]
        /\ pc' \in UpdateOutcomes(mAllRitems, mFrameResources[curr].ObjectCB)

\* Update up to the fence test; the rest of Update follows at once when the
\* frame resource needs no wait
UpdateBegin(key) ==
    /\ pc = "Update"
    /\ frameNo < MaxFrames
    /\ frameNo' = frameNo + 1
    /\ mIsWireframe' = key
    /\ mCurrFrameResourceIndex' = NextFrameResourceIndex(mCurrFrameResourceIndex)
    /\ mCurrFrameResource' = mCurrFrameResourceIndex'
    /\ acquired' = Append(acquired, mCurrFrameResourceIndex')
    /\ IF NeedsWait(mFrameResources[mCurrFrameResource'].Fence, mFence)
       THEN /\ pc' = "Wait"
            /\ UNCHANGED << mAllRitems, mFrameResources, cyclesSinceSet >>
       ELSE UpdateCBs(mCurrFrameResource', frameNo')
    /\ UNCHANGED << initVars, mCurrentFence, mFence, mCommandQueue, numSets,
                    mRadius, watermarks >>

\* variant: the event is set only when the fence has passed the value
FenceReached_Later(fence, completedValue) == completedValue > fence

\* SetEventOnCompletion(fence, eventHandle): is the event set?
FenceReached(fence, completedValue) == completedValue >= fence

\* Update from WaitForSingleObject(eventHandle, INFINITE) on: the wait returns
\* once the event is set
UpdateResume ==
    /\ pc = "Wait"
    /\ FenceReached(mFrameResources[mCurrFrameResource].Fence, mFence)
    /\ UpdateCBs(mCurrFrameResource, frameNo)
    /\ UNCHANGED << initVars, mCurrFrameResource, mCurrFrameResourceIndex,
                    mIsWireframe, mCurrentFence, mFence, mCommandQueue,
                    frameNo, numSets, acquired, mRadius, watermarks >>

\* the commands DrawRenderItems records for render item ri: the descriptor
\* table of its object CBV and DrawIndexedInstanced
DrawCommand(item, ri, frameResourceIndex, opaqueCount) ==
    [ item |-> item,
      cbvIndex |-> DrawCbvIndex(frameResourceIndex, opaqueCount, ri.ObjCBIndex),
      IndexCount |-> ri.IndexCount,
      StartIndexLocation |-> ri.StartIndexLocation,
      BaseVertexLocation |-> ri.BaseVertexLocation ]

\* variant: the loop runs from the last element to the first
DrawRenderItems_Reversed(ritems, allRitems, frameResourceIndex) ==
    [ n \in 1 .. Size(ritems) |->
        DrawCommand(ritems[Size(ritems) - n], allRitems[ritems[Size(ritems) - n]],
                    frameResourceIndex, Size(ritems)) ]

\* DrawRenderItems: one draw per element of ritems, in order
DrawRenderItems(ritems, allRitems, frameResourceIndex) ==
    [ n \in 1 .. Size(ritems) |->
        DrawCommand(ritems[n - 1], allRitems[ritems[n - 1]],
                    frameResourceIndex, Size(ritems)) ]

\* variant: the two pipeline states are swapped
DrawPSO_Swapped(isWireframe) == IF isWireframe THEN "opaque" ELSE "opaque_wireframe"

\* the pipeline state Draw resets the command list with
DrawPSO(isWireframe) == IF isWireframe THEN "opaque_wireframe" ELSE "opaque"

\* mCommandQueue->Signal(mFence.Get(), value)
SignalCommand(value) ==
    [ kind |-> "signal", alloc |-> NullPtr, pso |-> "", passCbvIndex |-> 0,
      draws |-> << >>, value |-> value ]

\* variants: the Signal is enqueued before the command list; no Signal
ExecuteThenSignal_SignalFirst(queue, cmds, value) ==
    queue \o << SignalCommand(value), cmds >>
ExecuteThenSignal_NoSignal(queue, cmds, value) == queue \o << cmds >>

\* Draw: ExecuteCommandLists, and then Signal with the new fence value
ExecuteThenSignal(queue, cmds, value) == queue \o << cmds, SignalCommand(value) >>

\* variant: the fence value is decremented
NextFenceValue_CountsDown(currentFence) == currentFence - 1

\* variant: the fence value is not advanced
NextFenceValue_Same(currentFence) == currentFence

\* Draw: ++mCurrentFence
NextFenceValue(currentFence) == currentFence + 1

\* variant: the watermark is stored in the slot after the current one
Draw_StoresInNextSlot ==
    /\ pc = "Draw"
    /\ mCurrentFence' = NextFenceValue(mCurrentFence)
    /\ LET cmds == [ kind |-> "cmds",
                     alloc |-> mCurrFrameResource,
                     pso |-> DrawPSO(mIsWireframe),
                     passCbvIndex |-> DrawPassCbvIndex(mPassCbvOffset, mCurrFrameResourceIndex),
                     draws |-> DrawRenderItems(mOpaqueRitems, mAllRitems, mCurrFrameResourceIndex),
                     value |-> 0 ]
       IN  mCommandQueue' = ExecuteThenSignal(mCommandQueue, cmds, mCurrentFence')
    /\ mFrameResources' =
         [ mFrameResources EXCEPT
             ![NextFrameResourceIndex(mCurrFrameResourceIndex)].Fence = mCurrentFence' ]
    /\ watermarks' = Append(watermarks, mCurrentFence')
    /\ pc' = "Update"
    /\ UNCHANGED << initVars, mAllRitems, mCurrFrameResource, mCurrFrameResourceIndex,
                    mIsWireframe, mFence, frameNo, numSets, acquired, cyclesSinceSet,
                    mRadius >>

Draw ==
    /\ pc = "Draw"
    /\ mCurrentFence' = NextFenceValue(mCurrentFence)
    /\ LET cmds == [ kind |-> "cmds",
                     alloc |-> mCurrFrameResource,
                     pso |-> DrawPSO(mIsWireframe),
                     passCbvIndex |-> DrawPassCbvIndex(mPassCbvOffset, mCurrFrameResourceIndex),
                     draws |-> DrawRenderItems(mOpaqueRitems, mAllRitems, mCurrFrameResourceIndex),
                     value |-> 0 ]
       IN  mCommandQueue' = ExecuteThenSignal(mCommandQueue, cmds, mCurrentFence')
    /\ mFrameResources' = [ mFrameResources EXCEPT ![mCurrFrameResource].Fence = mCurrentFence' ]
    /\ watermarks' = Append(watermarks, mCurrentFence')
    /\ pc' = "Update"
    /\ UNCHANGED << initVars, mAllRitems, mCurrFrameResource, mCurrFrameResourceIndex,
                    mIsWireframe, mFence, frameNo, numSets, acquired, cyclesSinceSet,
                    mRadius >>

\* variant: a transform change marks the item dirty for one frame resource
SetTransform_DirtyOnce(k, world) ==
    /\ pc = "Update"
    /\ numSets < MaxSets
    /\ numSets' = numSets + 1
    /\ mAllRitems' = [ mAllRitems EXCEPT ![k].World = world,
                                         ![k].NumFramesDirty = 1 ]
    /\ cyclesSinceSet' = [ cyclesSinceSet EXCEPT ![k] = 0 ]
    /\ UNCHANGED << pc, initVars, mFrameResources, mCurrFrameResource,
                    mCurrFrameResourceIndex, mIsWireframe, mCurrentFence, mFence,
                    mCommandQueue, frameNo, acquired, mRadius, watermarks >>

\* a transform change between frames: "when we modify object data we should
\* set NumFramesDirty = gNumFrameResources"
SetTransform(k, world) ==
    /\ pc = "Update"
    /\ numSets < MaxSets
    /\ numSets' = numSets + 1
    /\ mAllRitems' = [ mAllRitems EXCEPT ![k].World = world,
                                         ![k].NumFramesDirty = gNumFrameResources ]
    /\ cyclesSinceSet' = [ cyclesSinceSet EXCEPT ![k] = 0 ]
    /\ UNCHANGED << pc, initVars, mFrameResources, mCurrFrameResource,
                    mCurrFrameResourceIndex, mIsWireframe, mCurrentFence, mFence,
                    mCommandQueue, frameNo, acquired, mRadius, watermarks >>

\* OnMouseMove between frames with the right button down: the camera radius
\* changes by delta and is restricted to its range
OnMouseMove(delta) ==
    /\ pc = "Update"
    /\ mRadius < InitRadius + MaxMoves
    /\ mRadius' = Clamp(mRadius + delta, MinRadius, MaxRadius)
    /\ UNCHANGED << pc, initVars, mAllRitems, mFrameResources, mCurrFrameResource,
                    mCurrFrameResourceIndex, mIsWireframe, mCurrentFence, mFence,
                    mCommandQueue, frameNo, numSets, acquired, cyclesSinceSet,
                    watermarks >>

\* variant: the destructor releases the members without FlushCommandQueue
Destructor_NoFlush ==
    /\ pc \in { "Update", "Draw" }
    /\ pc' = "Destroyed"
    /\ mFrameResources' = EmptyVec
    /\ UNCHANGED << initVars, mAllRitems, mCurrFrameResource, mCurrFrameResourceIndex,
                    mIsWireframe, mCurrentFence, mFence, mCommandQueue, frameNo,
                    numSets, acquired, cyclesSinceSet, mRadius, watermarks >>

\* ~ShapesApp after the message loop has ended, or after a DxException has
\* left a frame before its submission: FlushCommandQueue() up to its wait
\* (advance the fence value and Signal it)
Destructor ==
    /\ pc \in { "Update", "Draw" }
    /\ mCurrentFence' = mCurrentFence + 1
    /\ mCommandQueue' = Append(mCommandQueue, SignalCommand(mCurrentFence'))
    /\ pc' = "FlushWait"
    /\ UNCHANGED << initVars, mAllRitems, mFrameResources, mCurrFrameResource,
                    mCurrFrameResourceIndex, mIsWireframe, mFence, frameNo,
                    numSets, acquired, cyclesSinceSet, mRadius, watermarks >>

\* FlushCommandQueue returns once the GPU has reached the fence value; the
\* destructor ends and the members, the frame resources among them, are released
FlushCommandQueueDone ==
    /\ pc = "FlushWait"
    /\ mFence >= mCurrentFence
    /\ pc' = "Destroyed"
    /\ mFrameResources' = EmptyVec
    /\ UNCHANGED << initVars, mAllRitems, mCurrFrameResource, mCurrFrameResourceIndex,
                    mIsWireframe, mCurrentFence, mFence, mCommandQueue, frameNo,
                    numSets, acquired, cyclesSinceSet, mRadius, watermarks >>

(***************************************************************************)
(* GPU                                                                     *)
(***************************************************************************)
\* the GPU finishes the command list at the head of the queue
GpuExecute ==
    /\ mCommandQueue # << >>
    /\ Head(mCommandQueue).kind = "cmds"
    /\ mCommandQueue' = Tail(mCommandQueue)
    /\ UNCHANGED << pc, initVars, mAllRitems, mFrameResources, mCurrFrameResource,
                    mCurrFrameResourceIndex, mIsWireframe, mCurrentFence, mFence,
                    frameNo, numSets, acquired, cyclesSinceSet, mRadius, watermarks >>

\* the GPU reaches a Signal: the fence takes its value
GpuSignal ==
    /\ mCommandQueue # << >>
    /\ Head(mCommandQueue).kind = "signal"
    /\ mFence' = Head(mCommandQueue).value
    /\ mCommandQueue' = Tail(mCommandQueue)
    /\ UNCHANGED << pc, initVars, mAllRitems, mFrameResources, mCurrFrameResource,
                    mCurrFrameResourceIndex, mIsWireframe, mCurrentFence,
                    frameNo, numSets, acquired, cyclesSinceSet, mRadius, watermarks >>

\* the Signal at the head of the queue is lost: the fence keeps its value
GpuSignalLost ==
    /\ mCommandQueue # << >>
    /\ Head(mCommandQueue).kind = "signal"
    /\ mCommandQueue' = Tail(mCommandQueue)
    /\ UNCHANGED << pc, initVars, mAllRitems, mFrameResources, mCurrFrameResource,
                    mCurrFrameResourceIndex, mIsWireframe, mCurrentFence, mFence,
                    frameNo, numSets, acquired, cyclesSinceSet, mRadius, watermarks >>

\* Initialize, the frames and the GPU
NextFrames ==
    \/ BuildRenderItem
    \/ BuildOpaqueRitems
    \/ BuildFrameResources
    \/ BuildDescriptorHeaps
    \/ BuildObjectCbv
    \/ BuildPassCbv
    \/ InitializeFlush
    \/ \E key \in BOOLEAN : UpdateBegin(key)
    \/ UpdateResume
    \/ Draw
    \/ GpuExecute
    \/ GpuSignal

Next ==
    \/ NextFrames
    \/ \E k \in DOMAIN mAllRitems, world \in Transforms : SetTransform(k, world)

Spec == Init /\ [][Next]_vars

\* Initialize and the frames with the transforms left as built, which no
\* fence or queue depends on: the GPU keeps consuming its queue and the CPU
\* thread, once in a frame, keeps running
LiveSpec ==
    /\ Init
    /\ [][NextFrames]_vars
    /\ WF_vars(GpuExecute)
    /\ WF_vars(GpuSignal)
    /\ WF_vars(UpdateResume)
    /\ WF_vars(Draw)

\* the program with the mouse, the transforms left as built
NextCamera ==
    \/ NextFrames
    \/ \E delta \in MouseDeltas : OnMouseMove(delta)

CameraSpec == Init /\ [][NextCamera]_vars

\* the program with its end
NextShutdown ==
    \/ Next
    \/ Destructor
    \/ FlushCommandQueueDone

ShutdownSpec == Init /\ [][NextShutdown]_vars

\* the program on a queue that can lose a Signal
NextLoss ==
    \/ Next
    \/ GpuSignalLost

LossSpec == Init /\ [][NextLoss]_vars

\* the program on a scene with an item left at the default ObjCBIndex
IndexSpec == InitUnindexed /\ [][Next]_vars

\* the program as it is: Initialize on its scene (and on the bounded ones),
\* then frames; nothing in the source writes a transform after scene build
SceneSpec == InitScenes /\ [][NextFrames]_vars

(***************************************************************************)
(* Properties                                                              *)
(***************************************************************************)
\* a command list recorded with frame resource s's allocator is unfinished
Unfinished(s) ==
    \E n \in 1 .. Len(mCommandQueue) :
        mCommandQueue[n].kind = "cmds" /\ mCommandQueue[n].alloc = s

NumUnfinished ==
    Cardinality({ n \in 1 .. Len(mCommandQueue) : mCommandQueue[n].kind = "cmds" })

Running == pc \in { "Update", "Wait", "Draw" }

\* the step runs UpdateObjectCBs and UpdateMainPassCB
WritesCBs == pc \in { "Update", "Wait" } /\ pc' = "Draw"

\* C1: whenever the CPU writes object or pass constants into a frame-resource
\* slot, no command list submitted with that slot is still unfinished on the
\* GPU: the step that runs UpdateObjectCBs/UpdateMainPassCB finds the current
\* slot idle, and a step that changes a slot's constant buffers finds it idle.
C1_NoWriteWhileGpuReads ==
    [][ /\ WritesCBs => ~Unfinished(mCurrFrameResource')
        /\ Running =>
             \A s \in DOMAIN mFrameResources :
                 ( \/ mFrameResources'[s].ObjectCB # mFrameResources[s].ObjectCB
                   \/ mFrameResources'[s].PassCB # mFrameResources[s].PassCB )
                 => ~Unfinished(s) ]_vars

\* the CPU has written into a slot used before while the GPU still runs
\* command lists of other slots
C1_Witness ==
    /\ pc = "Draw"
    /\ frameNo > gNumFrameResources
    /\ NumUnfinished > 0
    /\ mFrameResources[mCurrFrameResource].PassCB[0].TotalTime = frameNo

\* C2: once the acquire step of Update has finished, the selected slot has
\* Fence = 0 or the completed fence value has reached its Fence; a slot whose
\* watermark exceeds the completed value is never handed to the CB updates.
C2_AcquiredSlotRetired ==
    pc = "Draw" =>
        \/ mFrameResources[mCurrFrameResource].Fence = 0
        \/ mFence >= mFrameResources[mCurrFrameResource].Fence

\* a reused slot was acquired while the GPU lags behind the CPU
C2_Witness ==
    /\ pc = "Draw"
    /\ mFrameResources[mCurrFrameResource].Fence # 0
    /\ mFence >= mFrameResources[mCurrFrameResource].Fence
    /\ mFence < mCurrentFence

\* C3: whenever Draw resets the current slot's command allocator, the GPU
\* has finished every command list recorded with that allocator.
C3_AllocatorResetWhenIdle ==
    [][ (pc = "Draw" /\ pc' = "Update") => ~Unfinished(mCurrFrameResource) ]_vars

\* Draw has reset and resubmitted an allocator that was used before, with
\* the previous frame still unfinished
C3_Witness ==
    /\ pc = "Update"
    /\ frameNo > gNumFrameResources
    /\ NumUnfinished >= 2
    /\ mCommandQueue[Len(mCommandQueue) - 1].alloc = mCurrFrameResource

\* C4: while the CPU prepares a frame (after the fence wait of Update and
\* before the submission in Draw) at most N-1 submitted frames are unfinished.
C4_LeadAheadBounded ==
    pc = "Draw" => NumUnfinished <= gNumFrameResources - 1

\* the CPU prepares a frame with N-1 frames unfinished
C4_Witness ==
    pc = "Draw" /\ NumUnfinished = gNumFrameResources - 1

\* C5: every Update advances the ring index once to (index + 1) mod N and
\* makes that slot current, Draw leaves both unchanged; the k-th frame uses
\* slot k mod N and any N consecutive frames use each slot exactly once.
C5_RingAdvance ==
    /\ [][ /\ frameNo' = frameNo + 1 =>
                /\ mCurrFrameResourceIndex' = (mCurrFrameResourceIndex + 1) % gNumFrameResources
                /\ mCurrFrameResource' = mCurrFrameResourceIndex'
           /\ frameNo' = frameNo =>
                UNCHANGED << mCurrFrameResourceIndex, mCurrFrameResource >> ]_vars
    /\ [] ( /\ Len(acquired) = frameNo
            /\ \A k \in 1 .. Len(acquired) : acquired[k] = k % gNumFrameResources
            /\ frameNo > 0 => mCurrFrameResourceIndex = acquired[frameNo]
            /\ \A k \in 1 .. Len(acquired) - gNumFrameResources + 1 :
                   /\ { acquired[j] : j \in k .. k + gNumFrameResources - 1 }
                        = Last(gNumFrameResources)
                   /\ \A i, j \in k .. k + gNumFrameResources - 1 :
                          acquired[i] = acquired[j] => i = j )

\* two full turns of the ring have been made
C5_Witness ==
    /\ pc = "Draw"
    /\ frameNo = 2 * gNumFrameResources
    /\ mCurrFrameResourceIndex = 0
    /\ mCurrFrameResource = 0

\* the object constant stored for render item k in frame resource s
StoredObject(s, k) == mFrameResources[s].ObjectCB[mAllRitems[k].ObjCBIndex]

\* constants c hold the transpose of matrix m
HoldsTransposeOf(c, m) ==
    /\ DOMAIN c.World = 1 .. 4
    /\ \A r, col \in 1 .. 4 : c.World[r][col] = m[col][r]

\* C6: right after a render item's transform is set (construction included)
\* its dirty count is N; after N UpdateObjectCBs cycles with no further
\* change the count is 0 and every one of the N frame resources stores the
\* transposed transform at the item's object slot.
C6_DirtyCountDecay ==
    \A k \in DOMAIN mAllRitems :
        /\ cyclesSinceSet[k] = 0 => mAllRitems[k].NumFramesDirty = gNumFrameResources
        /\ cyclesSinceSet[k] = gNumFrameResources =>
              /\ mAllRitems[k].NumFramesDirty = 0
              /\ DOMAIN mFrameResources = Last(gNumFrameResources)
              /\ \A s \in DOMAIN mFrameResources :
                     HoldsTransposeOf(StoredObject(s, k), mAllRitems[k].World)

\* scenario: N = 3, item 0 at identity, item 1 set to translate(5,0,0); after
\* 3 cycles all 3 frame resources hold both and both counts are 0
C6_Witness ==
    /\ gNumFrameResources = 3
    /\ Size(mAllRitems) = 2
    /\ numSets = 1
    /\ mAllRitems[0].World = Identity4x4
    /\ mAllRitems[1].World = XMMatrixTranslation(5, 0, 0)
    /\ \A k \in DOMAIN mAllRitems :
           /\ cyclesSinceSet[k] = 3
           /\ mAllRitems[k].NumFramesDirty = 0
    /\ \A s \in 0 .. 2 :
           /\ mFrameResources[s].ObjectCB[0].World = Identity4x4
           /\ mFrameResources[s].ObjectCB[1].World =
                << <<1, 0, 0, 5>>, <<0, 1, 0, 0>>, <<0, 0, 1, 0>>, <<0, 0, 0, 1>> >>

\* C7: in every state reached by frames and transform sets between frames,
\* an item whose dirty count is 0 has the same object constant in all N frame
\* resources, the transpose of its current transform.
C7_CleanItemConsistent ==
    \A k \in DOMAIN mAllRitems :
        mAllRitems[k].NumFramesDirty = 0 =>
            /\ DOMAIN mFrameResources = Last(gNumFrameResources)
            /\ \A s, t \in DOMAIN mFrameResources : StoredObject(s, k) = StoredObject(t, k)
            /\ \A s \in DOMAIN mFrameResources :
                   HoldsTransposeOf(StoredObject(s, k), mAllRitems[k].World)

\* an item moved to a translation is clean again while another is still dirty
C7_Witness ==
    /\ numSets = 1
    /\ \E k, j \in DOMAIN mAllRitems :
           /\ mAllRitems[k].NumFramesDirty = 0
           /\ mAllRitems[k].World = XMMatrixTranslation(5, 0, 0)
           /\ mAllRitems[j].NumFramesDirty > 0
           /\ cyclesSinceSet[j] > 0

(***************************************************************************)
(* Properties of the descriptor layout                                     *)
(***************************************************************************)
LayoutBuilt == pc \in { "Flush", "Update", "Wait", "Draw" }

ObjCount == Size(mOpaqueRitems)

\* the valid (ringIndex, objectSlot) pairs
LayoutPairs == Last(gNumFrameResources) \X Last(ObjCount)

\* C8: the descriptor offset function is injective: distinct pairs
\* (ringIndex, objectSlot) have distinct object offsets, at build time and at
\* draw time, and no object offset equals a pass offset; no view the build
\* created was overwritten by another.
C8_OffsetsInjective ==
    LayoutBuilt =>
        /\ \A p, q \in LayoutPairs :
               p # q =>
                   /\ ObjectHeapIndex(p[1], ObjCount, p[2]) # ObjectHeapIndex(q[1], ObjCount, q[2])
                   /\ DrawCbvIndex(p[1], ObjCount, p[2]) # DrawCbvIndex(q[1], ObjCount, q[2])
        /\ \A p \in LayoutPairs, r \in Last(gNumFrameResources) :
               /\ ObjectHeapIndex(p[1], ObjCount, p[2]) # PassHeapIndex(mPassCbvOffset, r)
               /\ DrawCbvIndex(p[1], ObjCount, p[2]) # DrawPassCbvIndex(mPassCbvOffset, r)
        /\ \A p \in LayoutPairs :
               mCbvHeap[ObjectHeapIndex(p[1], ObjCount, p[2])] = ObjectView(p[1], p[2])
        /\ \A r \in Last(gNumFrameResources) :
               mCbvHeap[PassHeapIndex(mPassCbvOffset, r)] = PassView(r)

\* the layout of the 32-item scene is complete
C8_Witness ==
    /\ pc = "Flush"
    /\ ObjCount = NumSceneRitems
    /\ mCbvHeap[ObjectHeapIndex(1, ObjCount, 0)] = ObjectView(1, 0)

\* C9: the heap has exactly (objectCount + 1) * N descriptors, every object
\* and pass offset lies in it, every heap index is the offset of exactly one
\* pair or one pass ring index, and the pass descriptors are the last N.
C9_LayoutBijection ==
    LayoutBuilt =>
        /\ DOMAIN mCbvHeap = Last((ObjCount + 1) * gNumFrameResources)
        /\ \A p \in LayoutPairs : ObjectHeapIndex(p[1], ObjCount, p[2]) \in DOMAIN mCbvHeap
        /\ \A r \in Last(gNumFrameResources) :
               PassHeapIndex(mPassCbvOffset, r) \in DOMAIN mCbvHeap
        /\ \A h \in DOMAIN mCbvHeap :
               Cardinality({ p \in LayoutPairs : ObjectHeapIndex(p[1], ObjCount, p[2]) = h })
               + Cardinality({ r \in Last(gNumFrameResources) :
                                   PassHeapIndex(mPassCbvOffset, r) = h }) = 1
        /\ { PassHeapIndex(mPassCbvOffset, r) : r \in Last(gNumFrameResources) }
             = (ObjCount * gNumFrameResources) .. ((ObjCount + 1) * gNumFrameResources - 1)
        /\ \A h \in DOMAIN mCbvHeap : mCbvHeap[h] # NoView

\* Initialize has finished with every descriptor of the heap populated
C9_Witness ==
    /\ pc = "Update"
    /\ Size(mCbvHeap) > gNumFrameResources
    /\ \A h \in DOMAIN mCbvHeap : mCbvHeap[h].kind \in { "object", "pass" }

\* C10: for the scene the program builds (32 render items, N = 3) the heap
\* has 99 descriptors, the pass descriptors of ring indices 0, 1, 2 are at
\* heap indices 96, 97, 98 and the object descriptor of (2, 0) is at 64.
C10_ShapesLayout ==
    (LayoutBuilt /\ scene = ShapesScene) =>
        /\ Size(mAllRitems) = 32
        /\ ObjCount = 32
        /\ gNumFrameResources = 3
        /\ Size(mCbvHeap) = 99
        /\ DOMAIN mCbvHeap = 0 .. 98
        /\ mCbvHeap[96] = PassView(0)
        /\ mCbvHeap[97] = PassView(1)
        /\ mCbvHeap[98] = PassView(2)
        /\ \A r \in 0 .. 2 : DrawPassCbvIndex(mPassCbvOffset, r) = 96 + r
        /\ mCbvHeap[64] = ObjectView(2, 0)
        /\ DrawCbvIndex(2, ObjCount, mAllRitems[0].ObjCBIndex) = 64

\* the heap of the program's scene is built
C10_Witness ==
    /\ scene = ShapesScene
    /\ pc = "Flush"
    /\ mPassCbvOffset = 96
    /\ mCbvHeap[98].kind = "pass"

(***************************************************************************)
(* Properties of the fence protocol                                        *)
(***************************************************************************)
\* the frame resource the current frame selected
CurrSlot == mFrameResources[mCurrFrameResource]

\* C11: for every frame k > N, Update blocks exactly when the completed fence
\* value is below the watermark Draw recorded in the selected slot N frames
\* earlier, and while it is blocked it can resume exactly when the completed
\* value has reached that watermark (not a later one); it leaves the wait only
\* then, and goes on to the constant-buffer updates.
C11_BlocksOnWatermarkOfFrameBack ==
    /\ [][ (frameNo' = frameNo + 1 /\ frameNo' > gNumFrameResources) =>
               /\ mFrameResources[mCurrFrameResource'].Fence
                    = watermarks[frameNo' - gNumFrameResources]
               /\ pc' = "Wait" <=> mFence < watermarks[frameNo' - gNumFrameResources] ]_vars
    /\ [] ( pc = "Wait" =>
               /\ frameNo > gNumFrameResources
               /\ CurrSlot.Fence = watermarks[frameNo - gNumFrameResources]
               /\ (ENABLED UpdateResume)
                    <=> mFence >= watermarks[frameNo - gNumFrameResources] )
    /\ [][ (pc = "Wait" /\ pc' # "Wait") =>
               /\ mFence >= watermarks[frameNo - gNumFrameResources]
               /\ pc' = "Draw"
               /\ frameNo' = frameNo ]_vars

\* N = 3: the 4th frame is blocked on the watermark of the 1st frame, whose
\* Signal is the next thing the GPU reaches; frames 2 and 3 are unfinished
C11_Witness ==
    /\ gNumFrameResources = 3
    /\ frameNo = 4
    /\ pc = "Wait"
    /\ CurrSlot.Fence = watermarks[1]
    /\ mFence < watermarks[1]
    /\ Head(mCommandQueue).kind = "signal"
    /\ Head(mCommandQueue).value = watermarks[1]
    /\ NumUnfinished = 2

\* the step leaves the constant buffers, the queue and the fence values alone
NoFrameEffect ==
    UNCHANGED << mAllRitems, mFrameResources, mCommandQueue, mCurrentFence, watermarks >>

\* C12: within every frame the steps occur in this order and none is
\* skipped: the ring advance; the fence wait on the selected slot if needed,
\* with nothing written or submitted before it ends; the object constants and
\* the pass constants of this frame written into that slot, with nothing
\* submitted and no fence value recorded yet; then the command list that binds
\* that slot's descriptors submitted, followed by the Signal of the new fence
\* value, which is the value recorded in that slot.  Every frame begun earlier
\* has been submitted before the next begins.
C12_FrameStepOrder ==
    /\ [][ /\ (pc = "Update" /\ pc' # "Update") =>
                /\ pc' \in { "Wait", "Draw" }
                /\ frameNo' = frameNo + 1
                /\ mCurrFrameResourceIndex' = NextFrameResourceIndex(mCurrFrameResourceIndex)
                /\ mCurrFrameResource' = mCurrFrameResourceIndex'
           /\ (pc # "Wait" /\ pc' = "Wait") => (pc = "Update" /\ NoFrameEffect)
           /\ (pc # "Draw" /\ pc' = "Draw") =>
                /\ pc \in { "Update", "Wait" }
                /\ pc = "Wait" =>
                     UNCHANGED << frameNo, mCurrFrameResource, mCurrFrameResourceIndex >>
                /\ ~NeedsWait(mFrameResources[mCurrFrameResource'].Fence, mFence)
                /\ \A k \in DOMAIN mAllRitems :
                       mAllRitems[k].NumFramesDirty > 0 =>
                           mFrameResources'[mCurrFrameResource'].ObjectCB[mAllRitems[k].ObjCBIndex]
                             = ObjectConstantsOf(mAllRitems[k])
                /\ mFrameResources'[mCurrFrameResource'].PassCB[0].TotalTime = frameNo'
                /\ \A s \in DOMAIN mFrameResources :
                       mFrameResources'[s].Fence = mFrameResources[s].Fence
                /\ UNCHANGED << mCommandQueue, mCurrentFence, watermarks >>
           /\ (pc = "Draw" /\ pc' # "Draw") =>
                /\ pc' = "Update"
                /\ UNCHANGED << frameNo, mCurrFrameResource, mCurrFrameResourceIndex, mAllRitems >>
                /\ Len(mCommandQueue') = Len(mCommandQueue) + 2
                /\ SubSeq(mCommandQueue', 1, Len(mCommandQueue)) = mCommandQueue
                /\ LET cmds == mCommandQueue'[Len(mCommandQueue) + 1]
                       signal == mCommandQueue'[Len(mCommandQueue) + 2]
                   IN  /\ cmds.kind = "cmds"
                       /\ cmds.alloc = mCurrFrameResource
                       /\ mCbvHeap[cmds.passCbvIndex] = PassView(mCurrFrameResourceIndex)
                       /\ \A n \in DOMAIN cmds.draws :
                              mCbvHeap[cmds.draws[n].cbvIndex] =
                                  ObjectView(mCurrFrameResourceIndex,
                                             mAllRitems[cmds.draws[n].item].ObjCBIndex)
                       /\ signal.kind = "signal"
                       /\ signal.value = mCurrentFence'
                       /\ mCurrentFence' > mCurrentFence
                       /\ mFrameResources'[mCurrFrameResource].Fence = mCurrentFence'
                /\ \A s \in DOMAIN mFrameResources :
                       /\ mFrameResources'[s].ObjectCB = mFrameResources[s].ObjectCB
                       /\ mFrameResources'[s].PassCB = mFrameResources[s].PassCB
                       /\ s # mCurrFrameResource =>
                              mFrameResources'[s].Fence = mFrameResources[s].Fence ]_vars
    /\ [] ( Running =>
              Len(watermarks) = IF pc = "Update" THEN frameNo ELSE frameNo - 1 )

\* the frame after a full turn of the ring has gone through all its steps:
\* its constants are in its slot and its command list and Signal are the last
\* two entries of the queue
C12_Witness ==
    /\ pc = "Update"
    /\ frameNo = gNumFrameResources + 1
    /\ Len(watermarks) = frameNo
    /\ Len(mCommandQueue) >= 2
    /\ mCommandQueue[Len(mCommandQueue) - 1].kind = "cmds"
    /\ mCommandQueue[Len(mCommandQueue) - 1].alloc = mCurrFrameResource
    /\ mCommandQueue[Len(mCommandQueue)].value = CurrSlot.Fence
    /\ CurrSlot.PassCB[0].TotalTime = frameNo
    /\ CurrSlot.Fence = mCurrentFence

\* the fence value of the Signal that follows the command list at place n
SignalValueAfter(n) == mCommandQueue[n + 1].value

\* C13: fence values are strictly increasing across frames: each Draw
\* records in the current slot a watermark greater than every watermark
\* recorded before; the value signalled on the queue is that watermark and it
\* is enqueued right after the frame's command list; so once the completed
\* value has reached a slot's Fence, every command list submitted with that
\* slot, and every submission up to that watermark, has finished.
C13_FenceValuesIncrease ==
    /\ [] ( \A i, j \in DOMAIN watermarks : i < j => watermarks[i] < watermarks[j] )
    /\ [][ (pc = "Draw" /\ pc' = "Update") =>
               /\ \A k \in DOMAIN watermarks :
                      mFrameResources'[mCurrFrameResource].Fence > watermarks[k]
               /\ \A s \in DOMAIN mFrameResources :
                      mFrameResources'[mCurrFrameResource].Fence > mFrameResources[s].Fence
               /\ mCommandQueue'[Len(mCommandQueue')].kind = "signal"
               /\ mCommandQueue'[Len(mCommandQueue')].value
                    = mFrameResources'[mCurrFrameResource].Fence
               /\ mCommandQueue'[Len(mCommandQueue') - 1].kind = "cmds"
               /\ mCommandQueue'[Len(mCommandQueue') - 1].alloc = mCurrFrameResource ]_vars
    /\ [] ( \A n \in DOMAIN mCommandQueue :
               mCommandQueue[n].kind = "cmds" =>
                   /\ n + 1 \in DOMAIN mCommandQueue
                   /\ mCommandQueue[n + 1].kind = "signal"
                   /\ SignalValueAfter(n) > mFence
                   /\ SignalValueAfter(n) <= mFrameResources[mCommandQueue[n].alloc].Fence )
    /\ [] ( \A s \in DOMAIN mFrameResources :
               (mFrameResources[s].Fence # 0 /\ mFence >= mFrameResources[s].Fence) =>
                   /\ ~Unfinished(s)
                   /\ \A n \in DOMAIN mCommandQueue :
                          mCommandQueue[n].kind = "cmds" =>
                              SignalValueAfter(n) > mFrameResources[s].Fence )

\* the completed value stands at the watermark of a slot while a later
\* submission is unfinished
C13_Witness ==
    /\ Len(watermarks) >= gNumFrameResources
    /\ NumUnfinished >= 1
    /\ \E s \in DOMAIN mFrameResources :
           /\ mFrameResources[s].Fence # 0
           /\ mFence = mFrameResources[s].Fence
           /\ mFence < mCurrentFence

\* C14: if the GPU keeps finishing the command lists and reaching the
\* Signals of its queue, and the CPU thread keeps running, every Update that
\* blocks on a slot's watermark eventually resumes and every frame that was
\* begun is eventually submitted.
C14_BlockedUpdateResumes ==
    /\ (pc = "Wait") ~> (pc = "Draw")
    /\ \A n \in 1 .. MaxFrames : (frameNo = n) ~> (Len(watermarks) >= n)

\* an Update is blocked on a watermark whose Signal the GPU has not reached,
\* behind an unfinished command list
C14_Witness ==
    /\ pc = "Wait"
    /\ mFence < CurrSlot.Fence
    /\ Head(mCommandQueue).kind = "cmds"
    /\ Head(mCommandQueue).alloc = mCurrFrameResource

\* no Signal left in the queue can raise the completed value to the
\* watermark of the selected slot
WatermarkUnreachable ==
    /\ mFence < CurrSlot.Fence
    /\ \A n \in DOMAIN mCommandQueue :
           mCommandQueue[n].kind = "signal" => mCommandQueue[n].value < CurrSlot.Fence

\* C15: if fence signalling is lost, so that the completed value never
\* reaches the selected slot's watermark, the wait in Update does not block
\* forever: the waiting thread still has a step that ends the wait.
C15_LostSignalWaitEnds ==
    (pc = "Wait" /\ WatermarkUnreachable) => ENABLED UpdateResume

\* render item k has an ObjCBIndex outside [0, objectCount)
IndexOutOfRange(k) == mAllRitems[k].ObjCBIndex \notin Last(Size(mAllRitems))

C17_DrainedBeforeRelease ==
    [][ (pc # "Destroyed" /\ pc' = "Destroyed") =>
            /\ mFence >= mCurrentFence
            /\ \A k \in DOMAIN watermarks : mFence >= watermarks[k]
            /\ \A s \in DOMAIN mFrameResources : mFence >= mFrameResources[s].Fence
            /\ mCommandQueue = << >>
            /\ mFrameResources' = EmptyVec ]_vars

\* the application has ended after more than a turn of the ring and its
\* frame resources are released
C17_Witness ==
    /\ pc = "Destroyed"
    /\ frameNo > gNumFrameResources
    /\ mFrameResources = EmptyVec
    /\ mFence = mCurrentFence
    /\ mFence > watermarks[Len(watermarks)]

\* C18: the CPU suspends during frame production only in the acquire step
\* of Update, and only when the selected slot has Fence # 0 and the completed
\* value is below it: the wait is entered from Update alone and under that
\* condition alone, a frame whose slot has Fence = 0 or a reached Fence goes
\* straight on, none of the first N frames blocks, and outside the wait the
\* CPU thread can always take its next step.
C18_SuspendsOnlyInAcquire ==
    /\ [][ /\ (pc # "Wait" /\ pc' = "Wait") =>
                /\ pc = "Update"
                /\ mFrameResources[mCurrFrameResource'].Fence # 0
                /\ mFence < mFrameResources[mCurrFrameResource'].Fence
           /\ ( /\ frameNo' = frameNo + 1
                /\ \/ mFrameResources[mCurrFrameResource'].Fence = 0
                   \/ mFence >= mFrameResources[mCurrFrameResource'].Fence )
              => pc' = "Draw" ]_vars
    /\ [] ( frameNo <= gNumFrameResources => pc # "Wait" )
    /\ [] ( pc = "Wait" => CurrSlot.Fence # 0 )
    /\ [] ( (pc = "Wait" /\ mFence >= CurrSlot.Fence) => ENABLED UpdateResume )
    /\ [] ( pc = "Draw" => ENABLED Draw )
    /\ [] ( (pc = "Update" /\ frameNo < MaxFrames) => ENABLED (\E key \in BOOLEAN : UpdateBegin(key)) )

\* the N-th frame has been acquired without a wait while the GPU has not
\* finished any frame
C18_Witness ==
    /\ pc = "Draw"
    /\ frameNo = gNumFrameResources
    /\ CurrSlot.Fence = 0
    /\ NumUnfinished = gNumFrameResources - 1
    /\ mFence < watermarks[1]

\* c holds the pass constants of the frame at time gt with the camera at
\* distance radius
PassBlockOfFrame(c, gt, radius) ==
    /\ c.TotalTime = gt
    /\ c.EyePosW = [ x |-> 0, y |-> radius, z |-> 0 - radius ]
    /\ c.NearZ = 1
    /\ c.FarZ = 1000

\* C19: every Update writes the pass constant block into the current slot
\* exactly once and unconditionally: the step of Update that runs the
\* constant-buffer updates leaves in the current slot the block computed from
\* this frame's camera and time, whatever the dirty counts and whether or not
\* the camera moved, and leaves the pass blocks of the other N-1 slots as they
\* were; no other step changes a pass block, and every frame has that step.
C19_PassBlockWrittenEveryUpdate ==
    /\ [][ IF WritesCBs
           THEN /\ PassBlockOfFrame(mFrameResources'[mCurrFrameResource'].PassCB[0],
                                     frameNo', mRadius')
                /\ \A s \in DOMAIN mFrameResources :
                       s # mCurrFrameResource' =>
                           mFrameResources'[s].PassCB = mFrameResources[s].PassCB
           ELSE \A s \in DOMAIN mFrameResources :
                    mFrameResources'[s].PassCB = mFrameResources[s].PassCB ]_vars
    /\ [] ( pc = "Draw" => PassBlockOfFrame(CurrSlot.PassCB[0], frameNo, mRadius) )
    /\ [] ( (pc = "Update" /\ frameNo > 0) => CurrSlot.PassCB[0].TotalTime = frameNo )

\* a frame with every dirty count at 0 and the camera where the frame before
\* left it has written its pass block; a slot written before the camera moved
\* still holds the block of its own frame
C19_Witness ==
    /\ pc = "Draw"
    /\ frameNo > gNumFrameResources
    /\ \A k \in DOMAIN mAllRitems : mAllRitems[k].NumFramesDirty = 0
    /\ CurrSlot.PassCB[0].TotalTime = frameNo
    /\ \E s, t \in DOMAIN mFrameResources :
           /\ mFrameResources[s].PassCB[0].TotalTime = frameNo - 1
           /\ mFrameResources[s].PassCB[0].EyePosW = CurrSlot.PassCB[0].EyePosW
           /\ mFrameResources[t].PassCB[0].TotalTime = frameNo - 2
           /\ mFrameResources[t].PassCB[0].EyePosW # CurrSlot.PassCB[0].EyePosW

\* C20: every Draw records exactly one indexed-instanced draw per
\* registered render item, in registration order: the n-th draw of the
\* command list is that of the n-th item registered, with that item's
\* IndexCount, StartIndexLocation and BaseVertexLocation (those of its shape)
\* and the descriptor offset of (current ring index, the item's ObjCBIndex);
\* no item is skipped, repeated or reordered.
C20_OneDrawPerItemInOrder ==
    /\ [][ (pc = "Draw" /\ pc' = "Update") =>
             LET cmds == mCommandQueue'[Len(mCommandQueue') - 1]
             IN  /\ cmds.kind = "cmds"
                 /\ Len(cmds.draws) = Len(scene)
                 /\ \A n \in 1 .. Len(cmds.draws) :
                        LET d == cmds.draws[n]
                            ri == mAllRitems[n - 1]
                        IN  /\ d.item = n - 1
                            /\ ri.ObjCBIndex = scene[n].ObjCBIndex
                            /\ d.IndexCount = ri.IndexCount
                            /\ d.StartIndexLocation = ri.StartIndexLocation
                            /\ d.BaseVertexLocation = ri.BaseVertexLocation
                            /\ d.IndexCount = MeshData[scene[n].Shape].Indices32
                            /\ d.cbvIndex = mCurrFrameResourceIndex * Len(scene) + ri.ObjCBIndex
                            /\ mCbvHeap[d.cbvIndex] =
                                   ObjectView(mCurrFrameResourceIndex, ri.ObjCBIndex) ]_vars
    /\ [] ( \A n \in DOMAIN mCommandQueue :
               mCommandQueue[n].kind = "cmds" =>
                   /\ Len(mCommandQueue[n].draws) = Size(mAllRitems)
                   /\ \A i \in DOMAIN mCommandQueue[n].draws :
                          mCommandQueue[n].draws[i].item = i - 1 )

\* the frame on ring index 2 has recorded its draws: the box and then the
\* grid, each with its own arguments and descriptor offset
C20_Witness ==
    /\ pc = "Update"
    /\ frameNo > gNumFrameResources
    /\ mCurrFrameResourceIndex = 2
    /\ Len(mCommandQueue) >= 2
    /\ LET cmds == mCommandQueue[Len(mCommandQueue) - 1]
       IN  /\ cmds.kind = "cmds"
           /\ cmds.alloc = 2
           /\ Len(cmds.draws) = 2
           /\ cmds.draws[1] = [ item |-> 0, cbvIndex |-> 4, IndexCount |-> 36,
                                StartIndexLocation |-> 0, BaseVertexLocation |-> 0 ]
           /\ cmds.draws[2] = [ item |-> 1, cbvIndex |-> 5, IndexCount |-> 24,
                                StartIndexLocation |-> 36, BaseVertexLocation |-> 24 ]

(***************************************************************************)
(* Properties of the frame effects                                         *)
(***************************************************************************)
\* the heap BuildConstantBufferViews fills for n objects
BuiltHeap(n) ==
    [ h \in Last((n + 1) * gNumFrameResources) |->
        IF h < n * gNumFrameResources
        THEN ObjectView(h \div n, h % n)
        ELSE PassView(h - n * gNumFrameResources) ]

\* C21: the descriptor layout is fixed after initialisation: in every state
\* of the frames the object count, mPassCbvOffset and the view each heap index
\* refers to are those Initialize built from the scene, and the offsets every
\* submitted command list was recorded with are ringIndex * objectCount +
\* objectSlot and objectCount * N + ringIndex, whatever the fence values, the
\* dirty counts and the wireframe mode of its frame.
C21_LayoutFixedAfterInit ==
    Running =>
        /\ Size(mAllRitems) = Len(scene)
        /\ ObjCount = Len(scene)
        /\ mPassCbvOffset = Len(scene) * gNumFrameResources
        /\ mCbvHeap = BuiltHeap(Len(scene))
        /\ \A n \in DOMAIN mCommandQueue :
               mCommandQueue[n].kind = "cmds" =>
                   /\ mCommandQueue[n].passCbvIndex
                        = Len(scene) * gNumFrameResources + mCommandQueue[n].alloc
                   /\ \A d \in DOMAIN mCommandQueue[n].draws :
                          mCommandQueue[n].draws[d].cbvIndex
                            = mCommandQueue[n].alloc * Len(scene)
                              + scene[mCommandQueue[n].draws[d].item + 1].ObjCBIndex

\* after two turns of the ring, a transform change and a wireframe frame, two
\* command lists of different pipeline states are in the queue
C21_Witness ==
    /\ pc = "Update"
    /\ frameNo = 2 * gNumFrameResources
    /\ numSets = 1
    /\ mCbvHeap = BuiltHeap(Len(scene))
    /\ \E n, m \in DOMAIN mCommandQueue :
           /\ mCommandQueue[n].kind = "cmds"
           /\ mCommandQueue[m].kind = "cmds"
           /\ mCommandQueue[n].pso = "opaque"
           /\ mCommandQueue[m].pso = "opaque_wireframe"
           /\ mCommandQueue[m].passCbvIndex = mPassCbvOffset + mCommandQueue[m].alloc

\* the queue with the pipeline state of every command list left out
WithoutPSO(queue) == [ n \in DOMAIN queue |-> [ queue[n] EXCEPT !.pso = "" ] ]

\* the state apart from the wireframe flag and the pipeline states bound
KeyBlind ==
    << pc, mAllRitems, mFrameResources, mCurrFrameResource, mCurrFrameResourceIndex,
       mCurrentFence, mFence, WithoutPSO(mCommandQueue), frameNo, watermarks >>

\* the constant buffers and dirty counts after the updates on slot curr of
\* the frame at time gt
UpdatedRitems(curr) == UpdateObjectCBs(mAllRitems, mFrameResources[curr].ObjectCB).ritems
UpdatedResources(curr, gt) ==
    [ mFrameResources EXCEPT
        ![curr].ObjectCB = UpdateObjectCBs(mAllRitems, @).cb,
        ![curr].PassCB = [ @ EXCEPT ![0] = MainPassCB(gt, UpdateCamera(mRadius)) ] ]

\* C22: the wireframe toggle affects only which pipeline state Draw binds.
\* Whatever the key, the step that starts a frame, the step that ends its wait
\* and its Draw take the state apart from the flag and the bound pipeline
\* states to a state computed from that part alone, so two runs that differ
\* only in the keys agree on ring indices, watermarks, dirty counts, slot
\* contents, descriptor offsets and draws; either key state can be read at
\* every Update, the flag changes at no other step, and Draw binds the
\* wireframe pipeline state exactly when the flag of its frame is set.
C22_WireframeOnlySelectsPSO ==
    /\ [][ /\ frameNo' = frameNo + 1 =>
                LET curr == NextFrameResourceIndex(mCurrFrameResourceIndex)
                    wait == NeedsWait(mFrameResources[curr].Fence, mFence)
                IN  KeyBlind' =
                      << IF wait THEN "Wait" ELSE "Draw",
                         IF wait THEN mAllRitems ELSE UpdatedRitems(curr),
                         IF wait THEN mFrameResources
                                 ELSE UpdatedResources(curr, frameNo + 1),
                         curr, curr, mCurrentFence, mFence,
                         WithoutPSO(mCommandQueue), frameNo + 1, watermarks >>
           /\ frameNo' = frameNo => mIsWireframe' = mIsWireframe
           /\ (pc = "Wait" /\ pc' # "Wait") =>
                KeyBlind' =
                  << "Draw", UpdatedRitems(mCurrFrameResource),
                     UpdatedResources(mCurrFrameResource, frameNo),
                     mCurrFrameResource, mCurrFrameResourceIndex, mCurrentFence, mFence,
                     WithoutPSO(mCommandQueue), frameNo, watermarks >>
           /\ (pc = "Draw" /\ pc' # "Draw") =>
                /\ WithoutPSO(mCommandQueue') =
                     WithoutPSO(mCommandQueue) \o
                       << [ kind |-> "cmds", alloc |-> mCurrFrameResource, pso |-> "",
                            passCbvIndex |-> mPassCbvOffset + mCurrFrameResourceIndex,
                            draws |-> DrawRenderItems(mOpaqueRitems, mAllRitems,
                                                      mCurrFrameResourceIndex),
                            value |-> 0 ],
                          SignalCommand(mCurrentFence + 1) >>
                /\ mCommandQueue'[Len(mCommandQueue') - 1].pso =
                     IF mIsWireframe THEN "opaque_wireframe" ELSE "opaque"
                /\ mFrameResources' =
                     [ mFrameResources EXCEPT ![mCurrFrameResource].Fence = mCurrentFence + 1 ]
                /\ watermarks' = Append(watermarks, mCurrentFence + 1)
                /\ UNCHANGED << mAllRitems, mCurrFrameResource, mCurrFrameResourceIndex,
                                mFence, frameNo >> ]_vars
    /\ [] ( (pc = "Update" /\ frameNo < MaxFrames) =>
               \A key \in BOOLEAN :
                   /\ ENABLED (UpdateBegin(key) /\ mIsWireframe' = key)
                   /\ ~ ENABLED (UpdateBegin(key) /\ mIsWireframe' # key) )

\* a solid frame and a wireframe frame of the same scene are unfinished: their
\* command lists differ in the pipeline state and hold the same draws but for
\* the ring index
C22_Witness ==
    /\ pc = "Update"
    /\ mIsWireframe
    /\ \E n, m \in DOMAIN mCommandQueue :
           /\ n < m
           /\ mCommandQueue[n].kind = "cmds"
           /\ mCommandQueue[m].kind = "cmds"
           /\ mCommandQueue[n].pso = "opaque"
           /\ mCommandQueue[m].pso = "opaque_wireframe"
           /\ mCommandQueue[m].alloc = mCurrFrameResource
           /\ Len(mCommandQueue[n].draws) = Len(mCommandQueue[m].draws)
           /\ \A d \in DOMAIN mCommandQueue[n].draws :
                  mCommandQueue[n].draws[d].item = mCommandQueue[m].draws[d].item

\* the object constant the GPU reads through heap index h
ObjectThroughDescriptor(h) ==
    mFrameResources[mCbvHeap[h].frame].ObjectCB[mCbvHeap[h].element]

\* C23: once N UpdateObjectCBs cycles have followed the last write of an
\* item's transform, the object constant reached through the descriptor at
\* the offset of (ringIndex, the item's object slot) is, for every ringIndex
\* below N, the transpose of the written transform, and transposing it again
\* gives the written transform back.
C23_TransposeRoundTrip ==
    Running =>
        \A k \in DOMAIN mAllRitems :
            cyclesSinceSet[k] = gNumFrameResources =>
                \A r \in Last(gNumFrameResources) :
                    LET h == DrawCbvIndex(r, ObjCount, mAllRitems[k].ObjCBIndex)
                    IN  /\ h \in DOMAIN mCbvHeap
                        /\ mCbvHeap[h].kind = "object"
                        /\ HoldsTransposeOf(ObjectThroughDescriptor(h), mAllRitems[k].World)
                        /\ XMMatrixTranspose(ObjectThroughDescriptor(h).World)
                             = mAllRitems[k].World

\* the second of two items was moved to translate(5,0,0) three cycles ago:
\* the descriptors 1, 3 and 5 all lead to its transpose
C23_Witness ==
    /\ pc = "Update"
    /\ Size(mAllRitems) = 2
    /\ numSets = 1
    /\ cyclesSinceSet[1] = gNumFrameResources
    /\ mAllRitems[1].World = XMMatrixTranslation(5, 0, 0)
    /\ \A h \in { 1, 3, 5 } :
           /\ ObjectThroughDescriptor(h).World[1] = << 1, 0, 0, 5 >>
           /\ ObjectThroughDescriptor(h).World[4] = << 0, 0, 0, 1 >>

(***************************************************************************)
(* Properties of the ring's slots                                          *)
(***************************************************************************)
\* the frames (1-based) that Draw has submitted with slot s
SubmittedWith(s) == { j \in 1 .. Len(watermarks) : acquired[j] = s }

\* C24: a slot's fence watermark is 0 exactly when no frame has been
\* submitted with the slot.  It is 0 in every slot from construction until
\* the slot's first Draw, and from then on it is the non-zero value the last
\* Draw with the slot stored.
C24_ZeroWatermarkIffNeverSubmitted ==
    \A s \in DOMAIN mFrameResources :
        /\ mFrameResources[s].Fence = 0 <=> SubmittedWith(s) = {}
        /\ SubmittedWith(s) # {} =>
               /\ mFrameResources[s].Fence =
                    watermarks[CHOOSE j \in SubmittedWith(s) :
                                   \A i \in SubmittedWith(s) : i <= j]
               /\ mFrameResources[s].Fence > 0

\* two frames are submitted: slots 1 and 2 hold their watermarks 2 and 3 and
\* slot 0, not yet used, still holds 0
C24_Witness ==
    /\ pc = "Update"
    /\ frameNo = 2
    /\ acquired = << 1, 2 >>
    /\ mFrameResources[0].Fence = 0
    /\ mFrameResources[1].Fence = 2
    /\ mFrameResources[2].Fence = 3

\* C25: every render item's dirty count is between 0 and N in every state.
\* It is N less the number of UpdateObjectCBs cycles since the item's
\* transform was last written, up to N of them: each of the first N cycles
\* takes exactly 1 off and the cycles after them leave it at 0, so it never
\* goes below 0.
C25_DirtyCountInRange ==
    \A k \in DOMAIN mAllRitems :
        /\ mAllRitems[k].NumFramesDirty \in 0 .. gNumFrameResources
        /\ cyclesSinceSet[k] \in 0 .. gNumFrameResources
        /\ mAllRitems[k].NumFramesDirty = gNumFrameResources - cyclesSinceSet[k]

\* five cycles have run: the item never moved stayed at 0 through the last
\* two of them while the other, moved after the third, is down to 1
C25_Witness ==
    /\ pc = "Update"
    /\ frameNo = 5
    /\ numSets = 1
    /\ \E k, j \in DOMAIN mAllRitems :
           /\ mAllRitems[k].NumFramesDirty = 0
           /\ mAllRitems[j].NumFramesDirty = 1
           /\ cyclesSinceSet[j] = 2

\* the ring slots whose object constant of item k is not the transpose of the
\* item's transform
StaleSlots(k) ==
    { s \in DOMAIN mFrameResources :
          ~ HoldsTransposeOf(StoredObject(s, k), mAllRitems[k].World) }

\* the next n slots the ring acquires
NextSlots(n) == { (mCurrFrameResourceIndex + j) % gNumFrameResources : j \in 1 .. n }

\* C26: between frames, for every render item, at most dirty-count many ring
\* slots store an object constant other than the transpose of the item's
\* transform, and each of them is among the next dirty-count slots that the
\* ring acquires.
C26_StaleSlotsAwaitUpdate ==
    pc = "Update" =>
        \A k \in DOMAIN mAllRitems :
            /\ Cardinality(StaleSlots(k)) <= mAllRitems[k].NumFramesDirty
            /\ StaleSlots(k) \subseteq NextSlots(mAllRitems[k].NumFramesDirty)

\* one cycle after an item was moved the two slots not yet acquired are its
\* stale ones, while the item that did not move is stale nowhere
C26_Witness ==
    /\ pc = "Update"
    /\ numSets = 1
    /\ \E k, j \in DOMAIN mAllRitems :
           /\ mAllRitems[k].NumFramesDirty = 2
           /\ StaleSlots(k) = DOMAIN mFrameResources \ { mCurrFrameResourceIndex }
           /\ mAllRitems[k].World = XMMatrixTranslation(5, 0, 0)
           /\ mAllRitems[j].NumFramesDirty = 0
           /\ StaleSlots(j) = {}

\* C27: the step that runs UpdateObjectCBs changes object constants only in
\* the current slot's buffer and there only at the object slots of items
\* whose dirty count is above 0, which receive the transposed transforms.
\* The object buffers of the other N-1 slots, the current slot's elements of
\* the items with dirty count 0, and all transforms and object slots of the
\* items stay as they are.
C27_WritesOnlyDirtyInCurrentSlot ==
    [][ WritesCBs =>
          /\ \A s \in DOMAIN mFrameResources \ { mCurrFrameResource' } :
                 mFrameResources'[s].ObjectCB = mFrameResources[s].ObjectCB
          /\ DOMAIN mFrameResources'[mCurrFrameResource'].ObjectCB
               = DOMAIN mFrameResources[mCurrFrameResource'].ObjectCB
          /\ \A i \in DOMAIN mFrameResources[mCurrFrameResource'].ObjectCB :
                 mFrameResources'[mCurrFrameResource'].ObjectCB[i]
                   # mFrameResources[mCurrFrameResource'].ObjectCB[i]
                 => \E k \in DOMAIN mAllRitems :
                        /\ mAllRitems[k].ObjCBIndex = i
                        /\ mAllRitems[k].NumFramesDirty > 0
          /\ \A k \in DOMAIN mAllRitems :
                 /\ mAllRitems[k].NumFramesDirty > 0 =>
                        HoldsTransposeOf(
                            mFrameResources'[mCurrFrameResource'].ObjectCB[mAllRitems[k].ObjCBIndex],
                            mAllRitems[k].World)
                 /\ mAllRitems[k].NumFramesDirty = 0 =>
                        mFrameResources'[mCurrFrameResource'].ObjectCB[mAllRitems[k].ObjCBIndex]
                          = mFrameResources[mCurrFrameResource'].ObjectCB[mAllRitems[k].ObjCBIndex]
                 /\ mAllRitems'[k].World = mAllRitems[k].World
                 /\ mAllRitems'[k].ObjCBIndex = mAllRitems[k].ObjCBIndex ]_vars

\* the updates have just run with one item dirty and the other not: the moved
\* item's transpose is in the current slot only, the other slots still hold
\* its old constant
C27_Witness ==
    /\ pc = "Draw"
    /\ numSets = 1
    /\ \E k, j \in DOMAIN mAllRitems :
           /\ mAllRitems[k].World = XMMatrixTranslation(5, 0, 0)
           /\ mAllRitems[k].NumFramesDirty = gNumFrameResources - 1
           /\ StaleSlots(k) = DOMAIN mFrameResources \ { mCurrFrameResource }
           /\ \A s \in StaleSlots(k) : StoredObject(s, k).World = Identity4x4
           /\ mAllRitems[j].NumFramesDirty = 0
           /\ cyclesSinceSet[j] = gNumFrameResources

\* the object slots of the render items registered so far
ObjectSlots == { mAllRitems[k].ObjCBIndex : k \in DOMAIN mAllRitems }

\* C28: the object slots of the registered render items are pairwise
\* distinct, and once the scene is built they are exactly 0 .. objectCount-1
\* (0 .. 31 for the 32 items of the program's scene) and stay the ones the
\* build assigned, so no two items share an element of any slot's object
\* buffer.
C28_ObjectSlotsDistinct ==
    /\ \A k, j \in DOMAIN mAllRitems :
           k # j => mAllRitems[k].ObjCBIndex # mAllRitems[j].ObjCBIndex
    /\ \A k \in DOMAIN mAllRitems : mAllRitems[k].ObjCBIndex = scene[k + 1].ObjCBIndex
    /\ pc # "BuildRenderItems" =>
           /\ Size(mAllRitems) = Len(scene)
           /\ ObjCount = Size(mAllRitems)
           /\ ObjectSlots = Last(ObjCount)
           /\ scene = ShapesScene =>
                  /\ Size(mAllRitems) = 32
                  /\ ObjectSlots = 0 .. 31
    /\ \A s \in DOMAIN mFrameResources :
           /\ ObjectSlots \subseteq DOMAIN mFrameResources[s].ObjectCB
           /\ \A k, j \in DOMAIN mAllRitems :
                  k # j =>
                      DrawCbvIndex(s, Len(scene), mAllRitems[k].ObjCBIndex)
                        # DrawCbvIndex(s, Len(scene), mAllRitems[j].ObjCBIndex)

\* the program's scene in its fourth frame: 32 items, the last at slot 31,
\* and the current slot's buffer written at all 32 elements
C28_Witness ==
    /\ scene = ShapesScene
    /\ pc = "Draw"
    /\ frameNo = gNumFrameResources + 1
    /\ Size(mAllRitems) = NumSceneRitems
    /\ mAllRitems[31].ObjCBIndex = 31
    /\ \A i \in 0 .. 31 : CurrSlot.ObjectCB[i] = ObjectConstantsOf(mAllRitems[i])

\* C29: whenever Draw is about to record and submit a frame, the first N
\* frames included, the current slot's object constant of every render item
\* is the transpose of the item's transform as it is now, whatever frames
\* and transform changes between frames came before: no draw is given an
\* element that is stale or was never written.
C29_DrawReadsCurrentTransforms ==
    pc = "Draw" =>
        /\ mCurrFrameResource = mCurrFrameResourceIndex
        /\ \A k \in DOMAIN mAllRitems :
               /\ mAllRitems[k].ObjCBIndex \in DOMAIN CurrSlot.ObjectCB
               /\ StoredObject(mCurrFrameResource, k) # UnwrittenObject
               /\ HoldsTransposeOf(StoredObject(mCurrFrameResource, k), mAllRitems[k].World)

\* the first frame, with an item moved before it began: the current slot
\* holds the transpose of the new transform and the other two slots were
\* never written
C29_Witness ==
    /\ pc = "Draw"
    /\ frameNo = 1
    /\ numSets = 1
    /\ \E k \in DOMAIN mAllRitems :
           /\ mAllRitems[k].World = XMMatrixTranslation(5, 0, 0)
           /\ scene[k + 1].World = Identity4x4
           /\ StoredObject(mCurrFrameResource, k).World[1] = << 1, 0, 0, 5 >>
           /\ \A s \in DOMAIN mFrameResources \ { mCurrFrameResource } :
                  StoredObject(s, k) = UnwrittenObject

(***************************************************************************)
(* The descriptors bound and the buffers written                           *)
(***************************************************************************)
\* C30: the object descriptor DrawRenderItems binds for an item in a frame
\* with ring index r sits at the heap index at which BuildConstantBufferViews
\* created the view of element ObjCBIndex of slot r's object buffer, and that
\* view is still there: it leads to the element UpdateObjectCBs wrote for the
\* item when slot r was current, and to no other slot's or item's element.
C30_DrawBindsTheItemsView ==
    Running =>
        /\ \A n \in DOMAIN mCommandQueue :
               mCommandQueue[n].kind = "cmds" =>
                   \A d \in DOMAIN mCommandQueue[n].draws :
                       LET draw == mCommandQueue[n].draws[d]
                           slot == mCommandQueue[n].alloc
                           item == mAllRitems[draw.item]
                       IN  /\ draw.cbvIndex \in DOMAIN mCbvHeap
                           /\ draw.cbvIndex = ObjectHeapIndex(slot, ObjCount, item.ObjCBIndex)
                           /\ mCbvHeap[draw.cbvIndex] = ObjectView(slot, item.ObjCBIndex)
                           /\ \A j \in DOMAIN mAllRitems :
                                  j # draw.item =>
                                      mCbvHeap[draw.cbvIndex].element # mAllRitems[j].ObjCBIndex
        /\ pc = "Draw" =>
               \A k \in DOMAIN mAllRitems :
                   LET h == DrawCbvIndex(mCurrFrameResourceIndex, Size(mOpaqueRitems),
                                         mAllRitems[k].ObjCBIndex)
                   IN  /\ h \in DOMAIN mCbvHeap
                       /\ mCbvHeap[h] = ObjectView(mCurrFrameResource, mAllRitems[k].ObjCBIndex)
                       /\ ObjectThroughDescriptor(h) = ObjectConstantsOf(mAllRitems[k])

\* the frame submitted with slot 1 draws the moved second item through
\* descriptor 3, the view of element 1 of slot 1's buffer, where its transpose
\* is; descriptor 2 leads to the first item's constant
C30_Witness ==
    /\ pc = "Update"
    /\ numSets = 1
    /\ Size(mAllRitems) = 2
    /\ mAllRitems[0].World = Identity4x4
    /\ mAllRitems[1].World = XMMatrixTranslation(5, 0, 0)
    /\ \E n \in DOMAIN mCommandQueue :
           /\ mCommandQueue[n].kind = "cmds"
           /\ mCommandQueue[n].alloc = 1
           /\ mCommandQueue[n].draws[2].item = 1
           /\ mCommandQueue[n].draws[2].cbvIndex = 3
    /\ mCbvHeap[3] = ObjectView(1, 1)
    /\ ObjectThroughDescriptor(3).World[1] = << 1, 0, 0, 5 >>
    /\ ObjectThroughDescriptor(2).World = Identity4x4

\* the pass constants the GPU reads through heap index h
PassThroughDescriptor(h) ==
    mFrameResources[mCbvHeap[h].frame].PassCB[mCbvHeap[h].element]

\* C31: from the first Update on, the pointer to the current frame resource
\* designates the slot of the ring index.  The pass descriptor Draw binds,
\* at heap index mPassCbvOffset + ring index, is the view that
\* BuildConstantBufferViews created for that slot's pass buffer, and it leads
\* to the pass constants UpdateMainPassCB wrote in this frame; every command
\* list submitted carries the pass descriptor of its own slot.
C31_DrawBindsTheSlotsPassView ==
    Running =>
        /\ frameNo > 0 => mCurrFrameResource = mCurrFrameResourceIndex
        /\ pc = "Draw" =>
               LET h == DrawPassCbvIndex(mPassCbvOffset, mCurrFrameResourceIndex)
               IN  /\ h \in DOMAIN mCbvHeap
                   /\ h = PassHeapIndex(PassCbvOffset(ObjCount), mCurrFrameResource)
                   /\ mCbvHeap[h] = PassView(mCurrFrameResource)
                   /\ PassThroughDescriptor(h) = MainPassCB(frameNo, UpdateCamera(mRadius))
                   /\ PassThroughDescriptor(h) = CurrSlot.PassCB[0]
        /\ \A n \in DOMAIN mCommandQueue :
               mCommandQueue[n].kind = "cmds" =>
                   /\ mCommandQueue[n].passCbvIndex \in DOMAIN mCbvHeap
                   /\ mCbvHeap[mCommandQueue[n].passCbvIndex] = PassView(mCommandQueue[n].alloc)

\* the fifth frame, on slot 2 of a two-item scene: descriptor 8 leads to the
\* pass constants of time 5, descriptors 6 and 7 to those of frames 3 and 4
C31_Witness ==
    /\ pc = "Draw"
    /\ frameNo = 5
    /\ mCurrFrameResourceIndex = 2
    /\ mPassCbvOffset = 6
    /\ mCbvHeap[8] = PassView(2)
    /\ PassThroughDescriptor(8).TotalTime = 5
    /\ PassThroughDescriptor(6).TotalTime = 3
    /\ PassThroughDescriptor(7).TotalTime = 4

\* the descriptor heap exists
HeapBuilt == pc \in { "BuildObjectCbvs", "BuildPassCbvs" } \/ LayoutBuilt

\* C32: the object count of the descriptor layout and of the draw-time
\* offsets, the size of mOpaqueRitems, is the number of render items and the
\* number of object constants each frame resource was allocated with; every
\* view in the heap is a view of an element inside its slot's buffer, and
\* every element UpdateObjectCBs writes for an item lies inside the object
\* buffer of every slot.
C32_ObjectCountMatchesBuffers ==
    /\ mFrameResources # EmptyVec =>
           /\ Size(mOpaqueRitems) = Size(mAllRitems)
           /\ Size(mAllRitems) = Len(scene)
           /\ DOMAIN mFrameResources = Last(gNumFrameResources)
           /\ \A s \in DOMAIN mFrameResources :
                  /\ DOMAIN mFrameResources[s].ObjectCB = Last(Size(mOpaqueRitems))
                  /\ \A k \in DOMAIN mAllRitems :
                         mAllRitems[k].ObjCBIndex \in DOMAIN mFrameResources[s].ObjectCB
                  /\ ~ WritesOutOfRange(mAllRitems, mFrameResources[s].ObjectCB)
    /\ HeapBuilt =>
           /\ Size(mCbvHeap) = NumDescriptors(Size(mAllRitems))
           /\ mPassCbvOffset = PassCbvOffset(Size(mAllRitems))
           /\ \A h \in DOMAIN mCbvHeap :
                  /\ mCbvHeap[h].kind = "object" =>
                         /\ mCbvHeap[h].frame \in DOMAIN mFrameResources
                         /\ mCbvHeap[h].element
                              \in DOMAIN mFrameResources[mCbvHeap[h].frame].ObjectCB
                  /\ mCbvHeap[h].kind = "pass" =>
                         /\ mCbvHeap[h].frame \in DOMAIN mFrameResources
                         /\ mCbvHeap[h].element
                              \in DOMAIN mFrameResources[mCbvHeap[h].frame].PassCB
    /\ \A n \in DOMAIN mCommandQueue :
           mCommandQueue[n].kind = "cmds" =>
               \A d \in DOMAIN mCommandQueue[n].draws :
                   mCommandQueue[n].draws[d].cbvIndex < mPassCbvOffset

\* the program's scene after its first frame: 32 opaque items, 32 object
\* constants in each slot, the last view of slot 2 at heap index 95 and the
\* last element of the current slot written
C32_Witness ==
    /\ scene = ShapesScene
    /\ pc = "Update"
    /\ frameNo = 1
    /\ Size(mOpaqueRitems) = NumSceneRitems
    /\ \A s \in DOMAIN mFrameResources : Size(mFrameResources[s].ObjectCB) = NumSceneRitems
    /\ mCbvHeap[95] = ObjectView(2, 31)
    /\ CurrSlot.ObjectCB[31] # UnwrittenObject
    /\ Len(mCommandQueue) > 0

(***************************************************************************)
(* The order of the watermarks                                             *)
(***************************************************************************)
\* the slots a frame has been submitted with
SubmittedSlots == { s \in DOMAIN mFrameResources : mFrameResources[s].Fence # 0 }

\* slot s holds the smallest of the watermarks
HoldsSmallest(s) ==
    \A t \in DOMAIN mFrameResources : mFrameResources[s].Fence <= mFrameResources[t].Fence

\* the non-zero watermarks are pairwise distinct, and the slot of the last
\* frame submitted holds the largest, the current fence value
WatermarksOrdered ==
    /\ \A s, t \in SubmittedSlots :
           s # t => mFrameResources[s].Fence # mFrameResources[t].Fence
    /\ Len(watermarks) > 0 =>
           /\ mFrameResources[acquired[Len(watermarks)]].Fence = mCurrentFence
           /\ \A t \in DOMAIN mFrameResources :
                  mFrameResources[t].Fence <= mFrameResources[acquired[Len(watermarks)]].Fence

AllSubmitted == SubmittedSlots = Last(gNumFrameResources)

C34_DrawChangesOnlyWatermark ==
    [][ (pc = "Draw" /\ pc' # "Draw") =>
          /\ mCurrentFence' = mCurrentFence + 1
          /\ DOMAIN mFrameResources' = DOMAIN mFrameResources
          /\ mFrameResources'[mCurrFrameResource].Fence = mCurrentFence'
          /\ mFrameResources'[mCurrFrameResource].ObjectCB = CurrSlot.ObjectCB
          /\ mFrameResources'[mCurrFrameResource].PassCB = CurrSlot.PassCB
          /\ \A s \in DOMAIN mFrameResources \ { mCurrFrameResource } :
                 mFrameResources'[s] = mFrameResources[s]
          /\ mCurrFrameResourceIndex' = mCurrFrameResourceIndex
          /\ mCurrFrameResource' = mCurrFrameResource
          /\ mAllRitems' = mAllRitems
          /\ mOpaqueRitems' = mOpaqueRitems
          /\ mCbvHeap' = mCbvHeap
          /\ mPassCbvOffset' = mPassCbvOffset ]_vars

\* the fourth Draw has just run with one item still dirty: slot 1 holds the
\* new fence value 5 and the other slots the watermarks 3 and 4
C34_Witness ==
    /\ pc = "Update"
    /\ frameNo = 4
    /\ Len(watermarks) = 4
    /\ mCurrFrameResourceIndex = 1
    /\ mCurrentFence = 5
    /\ mFrameResources[1].Fence = 5
    /\ mFrameResources[2].Fence = 3
    /\ mFrameResources[0].Fence = 4
    /\ \E k \in DOMAIN mAllRitems :
           /\ mAllRitems[k].NumFramesDirty = 2
           /\ mAllRitems[k].World = XMMatrixTranslation(5, 0, 0)
    /\ mCommandQueue # << >>
    /\ mCommandQueue[Len(mCommandQueue)] = SignalCommand(5)

====
